---- MODULE Spec2Model ----
(***************************************************************************)
(* Nexus projects service: the datastore (projects, applications, tasks)   *)
(* and the request handlers of projects.routes.ts, student.routes.ts,      *)
(* collaboration.routes.ts and admin.routes.ts.  A handler is a sequence   *)
(* of steps, one per awaited datastore call; steps of different requests   *)
(* interleave freely (single-threaded event loop, no ordering across       *)
(* requests).                                                              *)
(***************************************************************************)
EXTENDS Naturals, FiniteSets, Sequences, Bags, TLC

VARIABLES
  projects,   \* project rows: [Projects -> project record]
  apps,       \* appliedProject rows: set of [id, projectId, studentId, status]
  tasks,      \* projectTask rows: set of [id, projectId, title, assignedToId, status]
  nextId,     \* next fresh row id of the datastore
  scope,      \* resolved scope of each user: [collegeId, department]
  inflight,   \* requests between two awaited calls: a bag of request records
  started,    \* number of requests issued so far
  last,       \* the request answered last, with its response
  attachments, \* projectAttachment rows: set of [id, projectId, uploaderId]
  comments,   \* comment rows: set of [id, projectId, authorId]
  auditLog,   \* audit entries written by AuditLogger: set of [entity, aid, pids, action]
  cache,      \* the scope cache of clients/profile: [Users -> cache entry]
  lookup,     \* the getUserScope call that returned last, with its result
  sockets     \* the websocket connection attempts: set of socket records

vars == <<projects, apps, tasks, nextId, scope, inflight, started, last,
          attachments, comments, auditLog, cache, lookup, sockets>>

----------------------------------------------------------------------------
\* Bounds of the model

\* requests issued in one behaviour
MaxReqs == 2

\* largest maxStudents a project is given
MaxStudentsCap == 2

\* concurrent accept requests of the concurrent-accept scenario
MaxAccepts == 3

\* admin requests that write, issued in one behaviour of the admin routes
MaxAdminReqs == 1

\* websocket connections open at a time
MaxSockets == 2

----------------------------------------------------------------------------
\* Values

None == "none"

Tenants == {"T1", "T2"}

Depts == {"CS", "EE"}

\* student subjects; Students are the ones that issue requests
AllStudents == {"S1", "S2", "S3", "S4", "S5"}

StudentNames == <<"S1", "S2", "S3", "S4", "S5">>

Students == {"S1", "S2"}

Faculty == {"F1", "F2"}

Admins == {"AD1"}

SuperAdmins == {"SA1"}

Users == Students \cup Faculty \cup Admins \cup SuperAdmins

Projects == {"P1"}

ApplicationStatus == {"PENDING", "ACCEPTED", "REJECTED"}

ModerationStatus == {"PENDING_APPROVAL", "APPROVED", "REJECTED"}

ProgressStatus == {"OPEN", "IN_PROGRESS", "COMPLETED"}

TaskStatus == {"TODO", "IN_PROGRESS", "COMPLETED"}

\* roles claim of the access token
Roles(u) ==
  IF u \in AllStudents THEN {"STUDENT"}
  ELSE IF u \in Faculty THEN {"FACULTY"}
  ELSE IF u \in SuperAdmins THEN {"SUPER_ADMIN"}
  ELSE {"HEAD_ADMIN"}

\* HTTP status the API documents for a duplicate application
Conflict == 409

\* HTTP status of the membership and role denials
Forbidden == 403

\* HTTP status for a project id the lookup does not find
NotFound == 404

\* HTTP status of requireAuth's error
Unauthorized == 401

----------------------------------------------------------------------------
\* Datastore queries

HasRow(id) == \E a \in apps : a.id = id

Row(id) == CHOOSE a \in apps : a.id = id

\* prisma.appliedProject.count({ where: { projectId, status: "ACCEPTED" } })
AcceptedCount(p) ==
  Cardinality({a \in apps : a.projectId = p /\ a.status = "ACCEPTED"})

\* rows of one (projectId, studentId) pair
RowsOf(p, s) == {a \in apps : a.projectId = p /\ a.studentId = s}

\* the status of the row of the pair, None when there is none
OwnStatus(p, s) ==
  IF RowsOf(p, s) = {} THEN None ELSE (CHOOSE a \in RowsOf(p, s) : TRUE).status

\* the compound unique key projectId_studentId of appliedProject: an insert of
\* a second row for the pair is refused by the datastore
UniqueKeyFreeMutant(p, s) == TRUE

UniqueKeyFree(p, s) == RowsOf(p, s) = {}

\* prisma.appliedProject.update({ where: { id }, data: { status } })
SetStatus(id, st) ==
  {IF a.id = id THEN [a EXCEPT !.status = st] ELSE a : a \in apps}

\* project.visibleToAllDepts || (department && project.departments.includes(department))
DeptVisible(p, dept) ==
  p.visibleToAllDepts \/ (dept # None /\ dept \in p.departments)

----------------------------------------------------------------------------
\* Requests

NoBody == [title |-> None, assignedToId |-> None, status |-> None]

\* collegeId and authorId as a client may put them in a request body
NoClient == [collegeId |-> None, authorId |-> None]

\* token, header: the scope the presented token carries and whether the
\* Authorization header is there to forward.
\* pc, seenMax: the handler's position and what it has read; hadRow, preStatus,
\* preFull, wasMember, sameTenant: the datastore as it was when the request
\* was issued; wrote: the handler has committed its update
NoReq ==
  [kind |-> None, handler |-> None, actor |-> None, pid |-> None,
   aid |-> 0, tid |-> 0, arg |-> None, num |-> 0, body |-> NoBody,
   pc |-> None, seenMax |-> 0, hadRow |-> FALSE, preStatus |-> None,
   preFull |-> FALSE, wrote |-> FALSE, wasMember |-> FALSE, sameTenant |-> FALSE,
   departments |-> {}, visibleToAllDepts |-> FALSE, ids |-> {}, override |-> None,
   seenModeration |-> None, seenProgress |-> None, seenArchived |-> FALSE,
   client |-> NoClient, token |-> [collegeId |-> None, department |-> None],
   header |-> FALSE]

\* resp: the HTTP status; before: the status of the row a write replaced;
\* changed: the answering step changed the datastore; returned: the projects
\* a read returned; emitted: the rooms the answering step emitted an event to
NoLast ==
  [req |-> NoReq, resp |-> 0, before |-> None, changed |-> FALSE, returned |-> {},
   emitted |-> {}]

\* a scope as getUserScope returns it; None is an absent field
NoScope == [collegeId |-> None, department |-> None]

\* a cache entry: present is FALSE for a key the cache does not hold
NoEntry == [present |-> FALSE, collegeId |-> None, department |-> None]

NoCache == [u \in Users |-> NoEntry]

\* token: the scope the access token carries; identity, profile: what the
\* identity service and the profile service answer; raised: getUserScope threw
NoLookup ==
  [sub |-> None, token |-> NoScope, header |-> FALSE,
   readFails |-> FALSE, writeFails |-> FALSE, hit |-> FALSE,
   identity |-> [ok |-> FALSE, collegeId |-> None, department |-> None],
   profile |-> [outcome |-> None, collegeId |-> None, department |-> None],
   raised |-> FALSE, scope |-> NoScope, consulted |-> << >>]

\* the requests in flight
InFlight == BagToSet(inflight)

\* a request leaves the handler with a response
AnswerEmit(r, code, before, rooms) ==
  /\ inflight' = inflight (-) SetToBag({r})
  /\ last' = [req |-> r, resp |-> code, before |-> before,
              changed |-> (apps' # apps \/ projects' # projects \/ tasks' # tasks
                             \/ attachments' # attachments \/ comments' # comments),
              returned |-> {}, emitted |-> rooms]

\* a request leaves the handler with a response and no event
Answer(r, code, before) == AnswerEmit(r, code, before, {})

\* a request moves to its next awaited call
Goto(r, r2) ==
  /\ inflight' = (inflight (-) SetToBag({r})) (+) SetToBag({r2})
  /\ UNCHANGED last

\* a new request enters its handler
Issue(r) ==
  /\ started < MaxReqs
  /\ started' = started + 1
  /\ inflight' = inflight (+) SetToBag({r})
  /\ UNCHANGED <<projects, apps, tasks, nextId, scope, cache, lookup, sockets, attachments, comments, auditLog, last>>

----------------------------------------------------------------------------
\* Notifier (utils/websocket): rooms are <<prefix, key, suffix>> for the room
\* names `projects:${collegeId}`, `projects:${collegeId}:${dept}` and
\* `faculty:${userId}:applications`

ProjectsRoom(collegeId) == <<"projects", collegeId, None>>

DeptRoom(collegeId, dept) == <<"projects", collegeId, dept>>

FacultyRoom(userId) == <<"faculty", userId, "applications">>

\* an event object as a template literal prints it
EventObject == "[object Object]"

\* what a template literal prints for undefined
Undefined == "undefined"

\* a connection that joins the project room of every tenant
JoinedRoomsEveryTenantMutant(c) ==
  {ProjectsRoom(t) : t \in Tenants}
    \cup (IF "FACULTY" \in c.roles THEN {FacultyRoom(c.userId)} ELSE {})

\* io.on('connection'): the rooms a socket with this identity joins
JoinedRooms(c) ==
  (IF c.collegeId # None THEN {ProjectsRoom(c.collegeId)} ELSE {})
    \cup (IF c.collegeId # None /\ c.department # None
          THEN {DeptRoom(c.collegeId, c.department)} ELSE {})
    \cup (IF "FACULTY" \in c.roles /\ c.collegeId # None
          THEN {FacultyRoom(c.userId)} ELSE {})

\* the socket receives an event emitted to these rooms
Delivered(c, rooms) == JoinedRooms(c) \cap rooms # {}

\* emitProjectUpdate(event): the rooms the event is emitted to
EmitProjectUpdate(collegeId, departments, visibleToAllDepts) ==
  {ProjectsRoom(collegeId)}
    \cup (IF ~visibleToAllDepts /\ departments # {}
          THEN {DeptRoom(collegeId, d) : d \in departments} ELSE {})

\* emitProjectUpdate(projectId, { ... }) of collaborationRoutes: the first
\* argument is a string, so collegeId, departments and visibleToAllDepts are
\* undefined; the event goes to `projects:undefined` and departments.length
\* throws into the handler's catch
EmitProjectUpdateString == {ProjectsRoom(Undefined)}

\* emitApplicationUpdate(event, facultyUserId): the room the event is emitted to
EmitApplicationUpdate(event, facultyUserId) == {FacultyRoom(facultyUserId)}

----------------------------------------------------------------------------
\* Student apply: POST /v1/projects/:id/applications, registered by
\* projectsRoutes (handler "projects") and by studentRoutes (handler "student")

ApplyHandlers == {"projects", "student"}

\* canAccessProject(user, project) of middlewares/userAuth
CanAccessProject(sc, p) ==
  sc.collegeId = p.collegeId /\ DeptVisible(p, sc.department)

\* the checks between requireAuth and the duplicate lookup; 0 lets the request go on
ApplyGateProjects(u, p) ==
  LET sc == scope[u] IN
  IF "STUDENT" \notin Roles(u) THEN 403
  ELSE IF sc.collegeId = None THEN 400
  ELSE IF ~(p.collegeId = sc.collegeId /\ ~p.archived) THEN 404
  ELSE IF p.moderationStatus # "APPROVED" THEN 403
  ELSE IF p.progressStatus = "COMPLETED" THEN 400
  ELSE IF ~DeptVisible(p, sc.department) THEN 403
  ELSE IF p.deadlinePassed THEN 400
  ELSE 0

\* requireStudent throws inside the handler's try: the catch answers 500
ApplyGateStudent(u, pid) ==
  LET sc == scope[u]
      p == projects[pid] IN
  IF "STUDENT" \notin Roles(u) THEN 500
  ELSE IF p.moderationStatus # "APPROVED" \/ p.progressStatus # "OPEN" THEN 400
  ELSE IF AcceptedCount(pid) >= p.maxStudents THEN 400
  ELSE IF ~CanAccessProject(sc, p) THEN 403
  ELSE 0

\* the answer to a student who already has a row on the project
AlreadyAppliedCode(h) == IF h = "projects" THEN 409 ELSE 400

CreatedCode(h) == IF h = "projects" THEN 200 ELSE 201

StartApply(h, u, pid) ==
  Issue([NoReq EXCEPT !.kind = "apply", !.handler = h, !.actor = u, !.pid = pid,
                      !.pc = "project", !.hadRow = RowsOf(pid, u) # {}])

ApplyProject(r) ==
  /\ r.kind = "apply" /\ r.pc = "project"
  /\ UNCHANGED <<projects, apps, tasks, nextId, scope, cache, lookup, sockets, attachments, comments, auditLog, started>>
  /\ LET code == IF r.handler = "projects"
                 THEN ApplyGateProjects(r.actor, projects[r.pid])
                 ELSE ApplyGateStudent(r.actor, r.pid) IN
     IF code # 0 THEN Answer(r, code, OwnStatus(r.pid, r.actor))
     ELSE Goto(r, [r EXCEPT !.pc = "existing"])

ApplyExisting(r) ==
  /\ r.kind = "apply" /\ r.pc = "existing"
  /\ UNCHANGED <<projects, apps, tasks, nextId, scope, cache, lookup, sockets, attachments, comments, auditLog, started>>
  /\ IF RowsOf(r.pid, r.actor) # {}
     THEN Answer(r, AlreadyAppliedCode(r.handler), OwnStatus(r.pid, r.actor))
     ELSE Goto(r, [r EXCEPT !.pc = "create"])

\* the insert, then emitApplicationUpdate({ ... }, project.authorId) in
\* projectsRoutes and emitApplicationUpdate(project.authorId, { ... }) in
\* studentRoutes
ApplyCreate(r) ==
  /\ r.kind = "apply" /\ r.pc = "create"
  /\ UNCHANGED <<projects, tasks, scope, cache, lookup, sockets, attachments, comments, auditLog, started>>
  /\ IF UniqueKeyFree(r.pid, r.actor)
     THEN /\ apps' = apps \cup {[id |-> nextId, projectId |-> r.pid,
                                  studentId |-> r.actor, status |-> "PENDING"]}
          /\ nextId' = nextId + 1
          /\ AnswerEmit(r, CreatedCode(r.handler), None,
                        IF r.handler = "projects"
                        THEN EmitApplicationUpdate(EventObject, projects[r.pid].authorId)
                        ELSE EmitApplicationUpdate(projects[r.pid].authorId, EventObject))
     ELSE /\ UNCHANGED <<apps, nextId>>
          /\ Answer(r, 500, None)

----------------------------------------------------------------------------
\* Faculty accept / reject: PUT /v1/applications/:id/status

\* values updateApplicationStatusSchema admits for body.status
StatusInputs == {"ACCEPTED", "REJECTED"}

StatusRequest(u, aid, st) ==
  [NoReq EXCEPT !.kind = "status", !.handler = "projects", !.actor = u,
                !.aid = aid, !.arg = st, !.pc = "read",
                !.pid = Row(aid).projectId,
                !.preStatus = Row(aid).status,
                !.preFull = (AcceptedCount(Row(aid).projectId)
                               = projects[Row(aid).projectId].maxStudents)]

StartStatus(u, aid, st) == Issue(StatusRequest(u, aid, st))

\* findUnique({ where: { id }, include: { project: true } }) and the checks on it
StatusGate(u, aid) ==
  IF "FACULTY" \notin Roles(u) THEN 403
  ELSE IF ~HasRow(aid) THEN 404
  ELSE IF projects[Row(aid).projectId].collegeId # scope[u].collegeId
          \/ projects[Row(aid).projectId].authorId # u THEN 404
  ELSE IF Row(aid).status # "PENDING" THEN 400
  ELSE 0

StatusRead(r) ==
  /\ r.kind = "status" /\ r.pc = "read"
  /\ UNCHANGED <<projects, apps, tasks, nextId, scope, cache, lookup, sockets, attachments, comments, auditLog, started>>
  /\ LET code == StatusGate(r.actor, r.aid) IN
     IF code # 0 THEN Answer(r, code, None)
     ELSE Goto(r, [r EXCEPT !.pc = IF r.arg = "ACCEPTED" THEN "count" ELSE "write",
                            !.seenMax = projects[Row(r.aid).projectId].maxStudents])

CapacityReachedMutant(r) == AcceptedCount(r.pid) > r.seenMax

\* acceptedCount >= application.project.maxStudents, the project as read before
CapacityReached(r) == AcceptedCount(r.pid) >= r.seenMax

StatusCount(r) ==
  /\ r.kind = "status" /\ r.pc = "count"
  /\ UNCHANGED <<projects, apps, tasks, nextId, scope, cache, lookup, sockets, attachments, comments, auditLog, started>>
  /\ IF CapacityReached(r) THEN Answer(r, 400, None)
     ELSE Goto(r, [r EXCEPT !.pc = "write"])

StatusWrite(r) ==
  /\ r.kind = "status" /\ r.pc = "write"
  /\ UNCHANGED <<projects, tasks, nextId, scope, cache, lookup, sockets, attachments, comments, auditLog, started>>
  /\ IF HasRow(r.aid)
     THEN /\ apps' = SetStatus(r.aid, r.arg)
          /\ Answer(r, 200, Row(r.aid).status)
     ELSE /\ UNCHANGED apps
          /\ Answer(r, 500, None)

----------------------------------------------------------------------------
\* Student withdraw: DELETE /v1/applications/:id

StartWithdraw(u, aid) ==
  Issue([NoReq EXCEPT !.kind = "withdraw", !.handler = "student", !.actor = u,
                      !.aid = aid, !.pc = "read"])

WithdrawGate(u, aid) ==
  IF "STUDENT" \notin Roles(u) THEN 500
  ELSE IF ~HasRow(aid) THEN 404
  ELSE IF Row(aid).studentId # u THEN 403
  ELSE IF Row(aid).status # "PENDING" THEN 400
  ELSE 0

WithdrawRead(r) ==
  /\ r.kind = "withdraw" /\ r.pc = "read"
  /\ UNCHANGED <<projects, apps, tasks, nextId, scope, cache, lookup, sockets, attachments, comments, auditLog, started>>
  /\ LET code == WithdrawGate(r.actor, r.aid) IN
     IF code # 0 THEN Answer(r, code, None)
     ELSE Goto(r, [r EXCEPT !.pid = Row(r.aid).projectId, !.pc = "delete"])

\* the delete, then emitApplicationUpdate(application.project.authorId, { ... })
WithdrawDelete(r) ==
  /\ r.kind = "withdraw" /\ r.pc = "delete"
  /\ UNCHANGED <<projects, tasks, nextId, scope, cache, lookup, sockets, attachments, comments, auditLog, started>>
  /\ IF HasRow(r.aid)
     THEN /\ apps' = apps \ {Row(r.aid)}
          /\ AnswerEmit(r, 200, Row(r.aid).status,
                        EmitApplicationUpdate(projects[r.pid].authorId, EventObject))
     ELSE /\ UNCHANGED apps
          /\ Answer(r, 500, None)

----------------------------------------------------------------------------
\* Admin override: PATCH /v1/admin/applications/:id/status

CanAccessCollegeMutant(u, target) ==
  "HEAD_ADMIN" \in Roles(u) \/ "SUPER_ADMIN" \in Roles(u)

\* canAccessCollege(adminPayload, targetCollegeId)
CanAccessCollege(u, target) ==
  IF "SUPER_ADMIN" \in Roles(u) THEN TRUE
  ELSE IF "HEAD_ADMIN" \in Roles(u)
       THEN (target = None \/ scope[u].collegeId = target)
       ELSE FALSE

StartAdminStatus(u, aid, st) ==
  Issue([NoReq EXCEPT !.kind = "adminStatus", !.handler = "admin", !.actor = u,
                      !.aid = aid, !.arg = st, !.pc = "read"])

\* requireHeadAdmin throws inside the handler's try: the catch answers 500
AdminStatusGate(u, aid) ==
  IF Roles(u) \cap {"HEAD_ADMIN", "SUPER_ADMIN"} = {} THEN 500
  ELSE IF ~HasRow(aid) THEN 404
  ELSE IF ~CanAccessCollege(u, projects[Row(aid).projectId].collegeId) THEN 403
  ELSE 0

AdminStatusRead(r) ==
  /\ r.kind = "adminStatus" /\ r.pc = "read"
  /\ UNCHANGED <<projects, apps, tasks, nextId, scope, cache, lookup, sockets, attachments, comments, auditLog, started>>
  /\ LET code == AdminStatusGate(r.actor, r.aid) IN
     IF code # 0 THEN Answer(r, code, None)
     ELSE Goto(r, [r EXCEPT !.pc = "write"])

\* prisma.appliedProject.update: the row is gone when a withdraw came between
AdminStatusWrite(r) ==
  /\ r.kind = "adminStatus" /\ r.pc = "write"
  /\ UNCHANGED <<projects, tasks, nextId, scope, cache, lookup, sockets, attachments, comments, auditLog, started>>
  /\ IF HasRow(r.aid)
     THEN /\ apps' = SetStatus(r.aid, r.arg)
          /\ Goto(r, [r EXCEPT !.pc = "audit", !.wrote = TRUE])
     ELSE /\ UNCHANGED apps
          /\ Answer(r, 500, None)

\* the entry AuditLogger.logApplicationStatusChange writes
ApplicationAudit(r) ==
  [entity |-> "APPLICATION", aid |-> r.aid, pids |-> {}, action |-> r.arg]

\* await AuditLogger.logApplicationStatusChange(...): the write of the entry
\* succeeds, or it fails and the catch answers 500; the update stays committed
AdminStatusAudit(r) ==
  /\ r.kind = "adminStatus" /\ r.pc = "audit"
  /\ UNCHANGED <<projects, apps, tasks, nextId, scope, cache, lookup, sockets, attachments, comments, started>>
  /\ \/ /\ auditLog' = auditLog \cup {ApplicationAudit(r)}
        /\ Answer(r, 200, None)
     \/ /\ UNCHANGED auditLog
        /\ Answer(r, 500, None)

----------------------------------------------------------------------------
\* Owner update: PUT /v1/projects/:id with body { maxStudents }

StartProjectUpdate(u, pid, n) ==
  Issue([NoReq EXCEPT !.kind = "projectUpdate", !.handler = "projects", !.actor = u,
                      !.pid = pid, !.num = n, !.pc = "read"])

\* findFirst({ where: { id, collegeId, authorId: payload.sub, archivedAt: null } });
\* a where field that is undefined is no condition
OwnedProject(u, p) ==
  /\ (scope[u].collegeId = None \/ p.collegeId = scope[u].collegeId)
  /\ p.authorId = u
  /\ ~p.archived

ProjectUpdateGate(u, pid) ==
  IF "FACULTY" \notin Roles(u) THEN 403
  ELSE IF ~OwnedProject(u, projects[pid]) THEN 404
  ELSE 0

ProjectUpdateRead(r) ==
  /\ r.kind = "projectUpdate" /\ r.pc = "read"
  /\ UNCHANGED <<projects, apps, tasks, nextId, scope, cache, lookup, sockets, attachments, comments, auditLog, started>>
  /\ LET code == ProjectUpdateGate(r.actor, r.pid) IN
     IF code # 0 THEN Answer(r, code, None)
     ELSE Goto(r, [r EXCEPT !.pc = "write"])

ProjectUpdateWrite(r) ==
  /\ r.kind = "projectUpdate" /\ r.pc = "write"
  /\ UNCHANGED <<apps, tasks, nextId, scope, cache, lookup, sockets, attachments, comments, auditLog, started>>
  /\ projects' = [projects EXCEPT ![r.pid].maxStudents = r.num]
  /\ Answer(r, 200, None)

----------------------------------------------------------------------------
\* The application lifecycle: one approved project of tenant T1 by F1, the
\* students of its department, any applications a sequential history leaves

HomeScope ==
  [u \in Users |->
     IF u = "F2" THEN [collegeId |-> "T2", department |-> "CS"]
     ELSE [collegeId |-> "T1", department |-> "CS"]]

OpenProject(n) ==
  [collegeId |-> "T1", authorId |-> "F1", departments |-> {"CS"},
   visibleToAllDepts |-> FALSE, moderationStatus |-> "APPROVED",
   progressStatus |-> "OPEN", archived |-> FALSE, maxStudents |-> n,
   deadlinePassed |-> FALSE]

\* application rows 1 (S1) and 2 (S2) with the statuses st gives; None is no row
SeedApps(st) ==
  {[id |-> IF s = "S1" THEN 1 ELSE 2, projectId |-> "P1", studentId |-> s,
    status |-> st[s]] : s \in {x \in Students : st[x] # None}}

Init ==
  /\ \E n \in 1..MaxStudentsCap, st \in [Students -> ApplicationStatus \cup {None}] :
       /\ Cardinality({s \in Students : st[s] = "ACCEPTED"}) <= n
       /\ projects = [p \in Projects |-> OpenProject(n)]
       /\ apps = SeedApps(st)
  /\ tasks = {}
  /\ nextId = 3
  /\ attachments = {} /\ comments = {} /\ auditLog = {}
  /\ cache = NoCache /\ lookup = NoLookup /\ sockets = {}
  /\ scope = HomeScope
  /\ inflight = EmptyBag
  /\ started = 0
  /\ last = NoLast

AppIds == {a.id : a \in apps}

\* a client issues a request
Start ==
  \/ \E h \in ApplyHandlers, u \in Students, pid \in Projects : StartApply(h, u, pid)
  \/ \E u \in Faculty, aid \in AppIds, st \in StatusInputs : StartStatus(u, aid, st)
  \/ \E u \in Students, aid \in AppIds : StartWithdraw(u, aid)
  \/ \E u \in Admins, aid \in AppIds, st \in ApplicationStatus : StartAdminStatus(u, aid, st)
  \/ \E u \in Faculty, pid \in Projects, n \in 1..MaxStudentsCap : StartProjectUpdate(u, pid, n)

\* a handler resumes after an awaited call
Step ==
  \/ \E r \in InFlight : ApplyProject(r)
  \/ \E r \in InFlight : ApplyExisting(r)
  \/ \E r \in InFlight : ApplyCreate(r)
  \/ \E r \in InFlight : StatusRead(r)
  \/ \E r \in InFlight : StatusCount(r)
  \/ \E r \in InFlight : StatusWrite(r)
  \/ \E r \in InFlight : WithdrawRead(r)
  \/ \E r \in InFlight : WithdrawDelete(r)
  \/ \E r \in InFlight : AdminStatusRead(r)
  \/ \E r \in InFlight : AdminStatusWrite(r)
  \/ \E r \in InFlight : AdminStatusAudit(r)
  \/ \E r \in InFlight : ProjectUpdateRead(r)
  \/ \E r \in InFlight : ProjectUpdateWrite(r)

Next == Start \/ Step

\* requests of different clients overlap
Spec == Init /\ [][Next]_vars

\* one request at a time: the next is issued when the last is answered
SeqNext == (inflight = EmptyBag /\ Start) \/ Step

SeqSpec == Init /\ [][SeqNext]_vars

----------------------------------------------------------------------------
\* Properties of the application lifecycle

\* C1: for every project the number of ACCEPTED applications is at most its
\* maxStudents, after any sequence of apply, accept/reject, withdraw, owner
\* update and admin override
C1_AcceptedWithinCapacity ==
  \A p \in Projects : AcceptedCount(p) <= projects[p].maxStudents

\* the last answer is to an accept by the project's author of an application
\* that was PENDING on a project that was full when the request was issued
C3_Case ==
  /\ last.req.kind = "status" /\ last.req.arg = "ACCEPTED"
  /\ last.req.pid # None
  /\ projects[last.req.pid].authorId = last.req.actor
  /\ projects[last.req.pid].collegeId = scope[last.req.actor].collegeId
  /\ last.req.preStatus = "PENDING"
  /\ last.req.preFull

C4_OneRowPerPair ==
  \A p \in Projects, s \in Students : Cardinality(RowsOf(p, s)) <= 1

\* an apply that passed the duplicate lookup and was refused at the insert
C4_Witness ==
  last.req.kind = "apply" /\ ~last.req.hadRow /\ last.resp = 500 /\ ~last.changed

\* C5: an apply by a student who has a row on the project (when the request
\* is issued and when it is answered) is answered Conflict and creates no row,
\* by either handler
C5_SecondApplyConflict ==
  (last.req.kind = "apply" /\ last.req.hadRow /\ last.before # None)
    => (last.resp = Conflict /\ ~last.changed)

\* C8: the faculty status update changes an application only when the actor
\* is the author of its project in the same tenant and the row is PENDING at
\* the write
C8_StatusWriteFromPending ==
  (last.req.kind = "status" /\ last.changed)
    => /\ last.before = "PENDING"
       /\ projects[last.req.pid].authorId = last.req.actor
       /\ projects[last.req.pid].collegeId = scope[last.req.actor].collegeId

\* C9: withdraw deletes an application only when the row is PENDING at the
\* delete
C9_WithdrawDeletesPending ==
  (last.req.kind = "withdraw" /\ last.changed) => last.before = "PENDING"

----------------------------------------------------------------------------
\* Concurrent accepts: n PENDING applications on a project with maxStudents = 1
\* and n accept requests of the author, one per application, all issued

AcceptInit ==
  \E n \in 2..MaxAccepts :
    /\ projects = [p \in Projects |-> OpenProject(1)]
    /\ apps = {[id |-> i, projectId |-> "P1", studentId |-> StudentNames[i],
                status |-> "PENDING"] : i \in 1..n}
    /\ tasks = {}
    /\ nextId = n + 1
    /\ attachments = {} /\ comments = {} /\ auditLog = {}
    /\ cache = NoCache /\ lookup = NoLookup /\ sockets = {}
    /\ scope = HomeScope
    /\ inflight = SetToBag({StatusRequest("F1", i, "ACCEPTED") : i \in 1..n})
    /\ started = n
    /\ last = NoLast

AcceptNext ==
  \/ \E r \in InFlight : StatusRead(r)
  \/ \E r \in InFlight : StatusCount(r)
  \/ \E r \in InFlight : StatusWrite(r)

ConcurrentAcceptSpec == AcceptInit /\ [][AcceptNext]_vars

\* C2: when every one of the concurrent accept requests is answered, exactly
\* one application is ACCEPTED and every other one is still PENDING
C2_ExactlyOneAccepted ==
  inflight = EmptyBag =>
    /\ Cardinality({a \in apps : a.status = "ACCEPTED"}) = 1
    /\ \A a \in apps : a.status \in {"ACCEPTED", "PENDING"}

----------------------------------------------------------------------------
\* Project reads by a non-admin actor: GET /v1/projects, GET /v1/projects/:id,
\* GET /v1/projects/marketplace.  Each is one query over the project rows.

\* where of GET /v1/projects with no optional query filter
ListFilter(u, p) ==
  LET sc == scope[u] IN
  /\ ~p.archived
  /\ (sc.collegeId # None => p.collegeId = sc.collegeId)
  /\ ("STUDENT" \in Roles(u) =>
        /\ p.moderationStatus = "APPROVED"
        /\ IF sc.department # None
           THEN p.visibleToAllDepts \/ sc.department \in p.departments
           ELSE p.visibleToAllDepts)

\* where of GET /v1/projects/marketplace with no optional query filter
MarketplaceFilter(u, p) ==
  LET sc == scope[u] IN
  /\ ~p.archived
  /\ p.moderationStatus = "APPROVED"
  /\ p.progressStatus = "OPEN"
  /\ (sc.collegeId # None => p.collegeId = sc.collegeId)
  /\ (p.visibleToAllDepts
        \/ (sc.department # None /\ sc.department \in p.departments))

\* a lookup that takes an undefined collegeId as a condition no row meets
FindInCollegeStrictMutant(u, p) ==
  p.collegeId = scope[u].collegeId /\ ~p.archived

\* findFirst({ where: { id, collegeId, archivedAt: null } }): a where field
\* that is undefined is no condition
FindInCollege(u, p) ==
  (scope[u].collegeId = None \/ p.collegeId = scope[u].collegeId) /\ ~p.archived

\* GET /v1/projects/:id: the project is sent (200) or the answer is 404
SingleReadVisible(u, p) ==
  /\ FindInCollege(u, p)
  /\ ("STUDENT" \in Roles(u) =>
        /\ p.moderationStatus = "APPROVED"
        /\ DeptVisible(p, scope[u].department))

ReadAnswer(kind, u, pid, code, ps) ==
  /\ last' = [req |-> [NoReq EXCEPT !.kind = kind, !.actor = u, !.pid = pid],
              resp |-> code, before |-> None, changed |-> FALSE, returned |-> ps, emitted |-> {}]
  /\ UNCHANGED <<projects, apps, tasks, nextId, scope, cache, lookup, sockets, attachments, comments, auditLog, inflight, started>>

ListProjects(u) ==
  ReadAnswer("list", u, None, 200, {p \in Projects : ListFilter(u, projects[p])})

\* requireStudent throws for another role inside the try: the catch answers 500
Marketplace(u) ==
  IF "STUDENT" \in Roles(u)
  THEN ReadAnswer("marketplace", u, None, 200,
                  {p \in Projects : MarketplaceFilter(u, projects[p])})
  ELSE ReadAnswer("marketplace", u, None, 500, {})

GetProject(u, pid) ==
  IF SingleReadVisible(u, projects[pid])
  THEN ReadAnswer("read", u, pid, 200, {pid})
  ELSE ReadAnswer("read", u, pid, 404, {})

\* the scopes a student can resolve to: tenant and department known or not
StudentScopes ==
  [collegeId : Tenants \cup {None}, department : Depts \cup {None}]

\* the project rows create, owner update and moderation can leave
ProjectRows ==
  {p \in [collegeId : Tenants, authorId : Faculty, departments : SUBSET Depts,
          visibleToAllDepts : BOOLEAN, moderationStatus : ModerationStatus,
          progressStatus : ProgressStatus, archived : BOOLEAN,
          maxStudents : {1}, deadlinePassed : {FALSE}] :
     /\ p.authorId = (IF p.collegeId = "T1" THEN "F1" ELSE "F2")
     /\ (~p.visibleToAllDepts => p.departments # {})}

Viewers == {"S1", "F1"}

ViewInit ==
  /\ projects \in [Projects -> ProjectRows]
  /\ \E sc \in StudentScopes : scope = [HomeScope EXCEPT !["S1"] = sc]
  /\ apps = {}
  /\ tasks = {}
  /\ nextId = 1
  /\ attachments = {} /\ comments = {} /\ auditLog = {}
  /\ cache = NoCache /\ lookup = NoLookup /\ sockets = {}
  /\ inflight = EmptyBag
  /\ started = 0
  /\ last = NoLast

ViewNext ==
  \/ \E u \in Viewers : ListProjects(u)
  \/ \E u \in Viewers : Marketplace(u)
  \/ \E u \in Viewers, pid \in Projects : GetProject(u, pid)

ViewSpec == ViewInit /\ [][ViewNext]_vars

\* canView(S, P) of the specification
CanView(sc, p) ==
  /\ p.collegeId = sc.collegeId
  /\ p.moderationStatus = "APPROVED"
  /\ ~p.archived
  /\ (p.visibleToAllDepts \/ sc.department \in p.departments)

\* C6: for every student scope and every project, the listing, the
\* marketplace and the single read return the project iff canView holds
C6_ReturnedIffCanView ==
  (last.req.kind \in {"list", "marketplace", "read"} /\ last.req.actor \in Students)
    => \A p \in (IF last.req.kind = "read" THEN {last.req.pid} ELSE Projects) :
         (p \in last.returned) <=> CanView(scope[last.req.actor], projects[p])

\* C7: a request of a non-admin actor returns or changes nothing of a project
\* of another tenant, and nothing at all when the actor's scope has no tenant
C7_NoCrossTenantAccess ==
  (last.req.actor \in AllStudents \cup Faculty)
    => /\ \A p \in last.returned :
            projects[p].collegeId = scope[last.req.actor].collegeId
       /\ (last.changed /\ last.req.pid # None) =>
            projects[last.req.pid].collegeId = scope[last.req.actor].collegeId

----------------------------------------------------------------------------
\* Task update: PUT /v1/tasks/:taskId of projectsRoutes (handler "projects")
\* and PUT /v1/tasks/:id of collaborationRoutes (handler "collaboration")

TaskHandlers == {"projects", "collaboration"}

HasTask(id) == \E t \in tasks : t.id = id

Task(id) == CHOOSE t \in tasks : t.id = id

\* findFirst({ where: { projectId, studentId, status: "ACCEPTED" } })
AcceptedMember(pid, u) ==
  \E a \in apps : a.projectId = pid /\ a.studentId = u /\ a.status = "ACCEPTED"

\* the request bodies: each field absent (None) or given
TaskBodies ==
  [title : {None, "t2"}, assignedToId : {None, "S1", "S2"},
   status : {None, "COMPLETED"}]

\* data of the update: the fields the body gives
ApplyBody(t, b) ==
  [t EXCEPT !.title = IF b.title # None THEN b.title ELSE @,
            !.assignedToId = IF b.assignedToId # None THEN b.assignedToId ELSE @,
            !.status = IF b.status # None THEN b.status ELSE @]

\* the actor is the project's author or has an ACCEPTED application on it
IsMember(u, pid) == projects[pid].authorId = u \/ AcceptedMember(pid, u)

\* a request on project pid or one of its rows, with the actor's membership
\* and tenant as they are when it is issued
OnProject(r, pid) ==
  [r EXCEPT !.wasMember = IsMember(r.actor, pid),
            !.sameTenant = (scope[r.actor].collegeId = projects[pid].collegeId)]

StartTaskUpdate(h, u, tid, b) ==
  Issue(OnProject([NoReq EXCEPT !.kind = "taskUpdate", !.handler = h, !.actor = u,
                                !.tid = tid, !.body = b, !.pc = "read"],
                  Task(tid).projectId))

\* the student branch takes a body that gives status alone
StatusOnly(b) ==
  ~(b.status = None \/ b.title # None \/ b.assignedToId # None)

\* projectsRoutes: the checks after findUnique({ where: { id: taskId }, include: { project } });
\* 0 lets the request go on
TaskGateProjects(u, tid, b) ==
  IF ~HasTask(tid) THEN 404
  ELSE LET t == Task(tid)
           p == projects[t.projectId] IN
       IF p.collegeId # scope[u].collegeId \/ p.archived THEN 404
       ELSE IF "FACULTY" \in Roles(u) /\ p.authorId = u THEN 0
       ELSE IF "STUDENT" \in Roles(u) /\ t.assignedToId = u
            THEN (IF StatusOnly(b) THEN 0 ELSE 403)
       ELSE 403

\* collaborationRoutes: the checks after findUnique with the actor's ACCEPTED rows
TaskGateCollaboration(u, tid) ==
  IF ~HasTask(tid) THEN 404
  ELSE LET t == Task(tid) IN
       IF projects[t.projectId].authorId # u /\ ~AcceptedMember(t.projectId, u)
       THEN 403
       ELSE 0

TaskRead(r) ==
  /\ r.kind = "taskUpdate" /\ r.pc = "read"
  /\ UNCHANGED <<projects, apps, tasks, nextId, scope, cache, lookup, sockets, attachments, comments, auditLog, started>>
  /\ LET code == IF r.handler = "projects"
                 THEN TaskGateProjects(r.actor, r.tid, r.body)
                 ELSE TaskGateCollaboration(r.actor, r.tid) IN
     IF code # 0
     THEN Answer(r, code, IF HasTask(r.tid) THEN Task(r.tid).assignedToId ELSE None)
     ELSE Goto(r, [r EXCEPT !.pid = Task(r.tid).projectId,
                            !.pc = IF r.handler = "projects"
                                      /\ "FACULTY" \in Roles(r.actor)
                                      /\ projects[Task(r.tid).projectId].authorId = r.actor
                                      /\ r.body.assignedToId # None
                                   THEN "member" ELSE "write"])

\* owner branch of projectsRoutes: assignedToId must be an accepted member
TaskMember(r) ==
  /\ r.kind = "taskUpdate" /\ r.pc = "member"
  /\ UNCHANGED <<projects, apps, tasks, nextId, scope, cache, lookup, sockets, attachments, comments, auditLog, started>>
  /\ IF ~AcceptedMember(r.pid, r.body.assignedToId) THEN Answer(r, 400, None)
     ELSE Goto(r, [r EXCEPT !.pc = "write"])

\* the student branch of projectsRoutes writes status alone; the other
\* branches write every field the body gives.  collaborationRoutes then calls
\* emitProjectUpdate(task.projectId, { ... }), which throws after the update
\* is committed: the catch answers 500
TaskWrite(r) ==
  /\ r.kind = "taskUpdate" /\ r.pc = "write"
  /\ UNCHANGED <<projects, apps, nextId, scope, cache, lookup, sockets, attachments, comments, auditLog, started>>
  /\ IF HasTask(r.tid)
     THEN /\ tasks' = (tasks \ {Task(r.tid)}) \cup {ApplyBody(Task(r.tid), r.body)}
          /\ IF r.handler = "projects"
             THEN Answer(r, 200, Task(r.tid).assignedToId)
             ELSE AnswerEmit(r, 500, Task(r.tid).assignedToId, EmitProjectUpdateString)
     ELSE /\ UNCHANGED tasks
          /\ Answer(r, 500, None)

\* P1 of F1 with S1 accepted, S2 accepted or pending, and one task
TaskInit ==
  /\ projects = [p \in Projects |-> OpenProject(MaxStudentsCap)]
  /\ \E st \in {"ACCEPTED", "PENDING"}, who \in {None, "S1", "S2"} :
       /\ (who = "S2" => st = "ACCEPTED")
       /\ apps = SeedApps([s \in Students |-> IF s = "S1" THEN "ACCEPTED" ELSE st])
       /\ tasks = {[id |-> 1, projectId |-> "P1", title |-> "t1",
                    assignedToId |-> who, status |-> "TODO"]}
  /\ nextId = 3
  /\ attachments = {} /\ comments = {} /\ auditLog = {}
  /\ cache = NoCache /\ lookup = NoLookup /\ sockets = {}
  /\ scope = HomeScope
  /\ inflight = EmptyBag
  /\ started = 0
  /\ last = NoLast

TaskIds == {t.id : t \in tasks}

TaskStart ==
  \E h \in TaskHandlers, u \in Students \cup Faculty, tid \in TaskIds, b \in TaskBodies :
    StartTaskUpdate(h, u, tid, b)

TaskStep ==
  \/ \E r \in InFlight : TaskRead(r)
  \/ \E r \in InFlight : TaskMember(r)
  \/ \E r \in InFlight : TaskWrite(r)

\* one task request at a time
TaskNext == (inflight = EmptyBag /\ TaskStart) \/ TaskStep

TaskSpec == TaskInit /\ [][TaskNext]_vars

\* C10: a task update by an actor who is not the project's author changes the
\* task only if the actor is the student the task is assigned to and the body
\* gives status alone; the assigned student's request that gives title or
\* assignedToId is answered Forbidden and leaves the task unchanged, by either
\* handler
C10_StudentStatusOnly ==
  /\ (last.req.kind = "taskUpdate" /\ last.changed
        /\ projects[last.req.pid].authorId # last.req.actor)
       => (last.before = last.req.actor /\ StatusOnly(last.req.body))
  /\ (last.req.kind = "taskUpdate" /\ last.req.actor \in Students
        /\ last.before = last.req.actor
        /\ (last.req.body.title # None \/ last.req.body.assignedToId # None))
       => (last.resp = Forbidden /\ ~last.changed)

----------------------------------------------------------------------------
\* Task create: POST /v1/projects/:id/tasks of projectsRoutes (handler
\* "projects") and of collaborationRoutes (handler "collaboration")

\* the request bodies of a create: a title, and assignedToId absent or given
TaskCreateBodies == {b \in TaskBodies : b.title # None /\ b.status = None}

StartTaskCreate(h, u, pid, b) ==
  Issue(OnProject([NoReq EXCEPT !.kind = "taskCreate", !.handler = h, !.actor = u,
                                !.pid = pid, !.body = b, !.pc = "read"], pid))

\* projectsRoutes: requireRole(FACULTY), then findFirst of the actor's own project
TaskCreateGateProjects(u, pid) ==
  IF "FACULTY" \notin Roles(u) THEN 403
  ELSE IF ~OwnedProject(u, projects[pid]) THEN 404
  ELSE 0

\* collaborationRoutes: the actor is the author or has an ACCEPTED application
TaskCreateGateCollaboration(u, pid) ==
  IF projects[pid].authorId # u /\ ~AcceptedMember(pid, u) THEN 403 ELSE 0

TaskCreateRead(r) ==
  /\ r.kind = "taskCreate" /\ r.pc = "read"
  /\ UNCHANGED <<projects, apps, tasks, nextId, scope, cache, lookup, sockets, attachments, comments, auditLog, started>>
  /\ LET code == IF r.handler = "projects"
                 THEN TaskCreateGateProjects(r.actor, r.pid)
                 ELSE TaskCreateGateCollaboration(r.actor, r.pid) IN
     IF code # 0 THEN Answer(r, code, None)
     ELSE Goto(r, [r EXCEPT !.pc = IF r.handler = "projects" /\ r.body.assignedToId # None
                                   THEN "member" ELSE "write"])

\* projectsRoutes: if (body.assignedToId) the assignee must be an accepted member
TaskCreateMember(r) ==
  /\ r.kind = "taskCreate" /\ r.pc = "member"
  /\ UNCHANGED <<projects, apps, tasks, nextId, scope, cache, lookup, sockets, attachments, comments, auditLog, started>>
  /\ IF ~AcceptedMember(r.pid, r.body.assignedToId) THEN Answer(r, 400, None)
     ELSE Goto(r, [r EXCEPT !.pc = "write"])

\* prisma.projectTask.create: projectsRoutes answers 200; collaborationRoutes
\* writes the body as it came with createdById and createdByName, columns
\* projectsRoutes never writes: the datastore refuses the unknown columns, or
\* it takes the row and emitProjectUpdate(projectId, { ... }) throws; the
\* catch answers 500 either way
TaskCreateWrite(r) ==
  /\ r.kind = "taskCreate" /\ r.pc = "write"
  /\ UNCHANGED <<projects, apps, scope, cache, lookup, sockets, attachments, comments, auditLog, started>>
  /\ \/ /\ tasks' = tasks \cup {[id |-> nextId, projectId |-> r.pid,
                                  title |-> r.body.title,
                                  assignedToId |-> r.body.assignedToId,
                                  status |-> "TODO"]}
        /\ nextId' = nextId + 1
        /\ IF r.handler = "projects" THEN Answer(r, 200, None)
           ELSE AnswerEmit(r, 500, None, EmitProjectUpdateString)
     \/ /\ r.handler = "collaboration"
        /\ UNCHANGED <<tasks, nextId>>
        /\ Answer(r, 500, None)

\* task create, task update and the admin override, one request at a time
TaskAssignStart ==
  \/ \E h \in TaskHandlers, u \in Students \cup Faculty, pid \in Projects,
        b \in TaskCreateBodies : StartTaskCreate(h, u, pid, b)
  \/ TaskStart
  \/ \E u \in Admins, aid \in AppIds, st \in ApplicationStatus : StartAdminStatus(u, aid, st)

TaskAssignStep ==
  \/ \E r \in InFlight : TaskCreateRead(r)
  \/ \E r \in InFlight : TaskCreateMember(r)
  \/ \E r \in InFlight : TaskCreateWrite(r)
  \/ TaskStep
  \/ \E r \in InFlight : AdminStatusRead(r)
  \/ \E r \in InFlight : AdminStatusWrite(r)
  \/ \E r \in InFlight : AdminStatusAudit(r)

TaskAssignNext == (inflight = EmptyBag /\ TaskAssignStart) \/ TaskAssignStep

TaskAssignSpec == TaskInit /\ [][TaskAssignNext]_vars

\* C11: every task's assignedToId is null or a student with an ACCEPTED
\* application on the task's project, after task create and update by either
\* handler and after the admin override of an application's status
C11_AssigneeAccepted ==
  \A t \in tasks :
    t.assignedToId = None \/ AcceptedMember(t.projectId, t.assignedToId)

----------------------------------------------------------------------------
\* The collaboration surface: tasks, comments and attachments of a project.
\* projectsRoutes registers GET /v1/projects/:id/tasks, GET and POST
\* /v1/projects/:id/comments, GET and POST /v1/projects/:id/attachments and
\* DELETE /v1/tasks/:taskId; collaborationRoutes registers the task and
\* attachment routes again and DELETE /v1/attachments/:id.

\* the list and create requests addressed by project id
CollabKinds ==
  {"taskList", "commentList", "commentCreate", "attachmentList", "attachmentCreate"}

\* the routes that register a kind
CollabHandlers(kind) ==
  IF kind \in {"commentList", "commentCreate"} THEN {"projects"} ELSE TaskHandlers

StartCollab(kind, h, u, pid) ==
  Issue(OnProject([NoReq EXCEPT !.kind = kind, !.handler = h, !.actor = u,
                                !.pid = pid, !.pc = "read"], pid))

\* the project lookup.  projectsRoutes: findFirst({ id, collegeId, archivedAt:
\* null }), 404 if none, and the author goes on.  collaborationRoutes:
\* findUnique with the actor's ACCEPTED rows, 403 if neither author nor member
CollabProject(r) ==
  /\ r.kind \in CollabKinds /\ r.pc = "read"
  /\ UNCHANGED <<projects, apps, tasks, nextId, scope, cache, lookup, sockets, attachments, comments, auditLog, started>>
  /\ IF r.handler = "projects"
     THEN IF ~FindInCollege(r.actor, projects[r.pid]) THEN Answer(r, 404, None)
          ELSE Goto(r, [r EXCEPT !.pc = IF projects[r.pid].authorId = r.actor
                                        THEN "do" ELSE "member"])
     ELSE IF ~IsMember(r.actor, r.pid) THEN Answer(r, 403, None)
          ELSE Goto(r, [r EXCEPT !.pc = "do"])

\* projectsRoutes: findFirst of the actor's ACCEPTED application, 403 if none
CollabMember(r) ==
  /\ r.kind \in CollabKinds /\ r.pc = "member"
  /\ UNCHANGED <<projects, apps, tasks, nextId, scope, cache, lookup, sockets, attachments, comments, auditLog, started>>
  /\ IF ~AcceptedMember(r.pid, r.actor) THEN Answer(r, 403, None)
     ELSE Goto(r, [r EXCEPT !.pc = "do"])

\* findMany of the project's tasks, comments or attachments
CollabList(r) ==
  /\ r.kind \in {"taskList", "commentList", "attachmentList"} /\ r.pc = "do"
  /\ UNCHANGED <<projects, apps, tasks, nextId, scope, cache, lookup, sockets, attachments, comments, auditLog, started>>
  /\ Answer(r, 200, None)

\* prisma.comment.create({ data: { projectId, authorId: payload.sub, ... } })
CommentCreate(r) ==
  /\ r.kind = "commentCreate" /\ r.pc = "do"
  /\ UNCHANGED <<projects, apps, tasks, scope, cache, lookup, sockets, attachments, auditLog, started>>
  /\ comments' = comments \cup {[id |-> nextId, projectId |-> r.pid, authorId |-> r.actor]}
  /\ nextId' = nextId + 1
  /\ Answer(r, 200, None)

\* prisma.projectAttachment.create.  projectsRoutes writes uploaderId:
\* payload.sub and answers 200.  collaborationRoutes writes uploadedById, not
\* uploaderId: the datastore refuses the unknown column, or it takes the row
\* with uploaderId unset and emitProjectUpdate(projectId, { ... }) throws; the
\* catch answers 500 either way
AttachmentCreate(r) ==
  /\ r.kind = "attachmentCreate" /\ r.pc = "do"
  /\ UNCHANGED <<projects, apps, tasks, scope, cache, lookup, sockets, comments, auditLog, started>>
  /\ \/ /\ attachments' = attachments \cup
               {[id |-> nextId, projectId |-> r.pid,
                 uploaderId |-> IF r.handler = "projects" THEN r.actor ELSE None]}
        /\ nextId' = nextId + 1
        /\ IF r.handler = "projects" THEN Answer(r, 200, None)
           ELSE AnswerEmit(r, 500, None, EmitProjectUpdateString)
     \/ /\ r.handler = "collaboration"
        /\ UNCHANGED <<attachments, nextId>>
        /\ Answer(r, 500, None)

\* DELETE /v1/attachments/:id of collaborationRoutes

HasAttachment(id) == \E a \in attachments : a.id = id

Attachment(id) == CHOOSE a \in attachments : a.id = id

StartAttachmentDelete(u, id) ==
  Issue(OnProject([NoReq EXCEPT !.kind = "attachmentDelete", !.handler = "collaboration",
                                !.actor = u, !.aid = id, !.pc = "read"],
                  Attachment(id).projectId))

CanDeleteAttachmentMutant(u, a) == TRUE

\* isUploader || isProjectAuthor
CanDeleteAttachment(u, a) ==
  a.uploaderId = u \/ projects[a.projectId].authorId = u

\* findUnique of the attachment with its project's authorId; before: the
\* uploader of the attachment
AttachmentDeleteRead(r) ==
  /\ r.kind = "attachmentDelete" /\ r.pc = "read"
  /\ UNCHANGED <<projects, apps, tasks, nextId, scope, cache, lookup, sockets, attachments, comments, auditLog, started>>
  /\ IF ~HasAttachment(r.aid) THEN Answer(r, 404, None)
     ELSE IF ~CanDeleteAttachment(r.actor, Attachment(r.aid))
          THEN Answer(r, 403, Attachment(r.aid).uploaderId)
          ELSE Goto(r, [r EXCEPT !.pid = Attachment(r.aid).projectId, !.pc = "write"])

\* prisma.projectAttachment.delete({ where: { id } }): throws if the row is gone
AttachmentDeleteWrite(r) ==
  /\ r.kind = "attachmentDelete" /\ r.pc = "write"
  /\ UNCHANGED <<projects, apps, tasks, nextId, scope, cache, lookup, sockets, comments, auditLog, started>>
  /\ IF HasAttachment(r.aid)
     THEN /\ attachments' = attachments \ {Attachment(r.aid)}
          /\ Answer(r, 200, Attachment(r.aid).uploaderId)
     ELSE /\ UNCHANGED attachments
          /\ Answer(r, 500, None)

\* DELETE /v1/tasks/:taskId of projectsRoutes and DELETE /v1/tasks/:id of
\* collaborationRoutes

StartTaskDelete(h, u, tid) ==
  Issue(OnProject([NoReq EXCEPT !.kind = "taskDelete", !.handler = h, !.actor = u,
                                !.tid = tid, !.pc = "read"],
                  Task(tid).projectId))

\* projectsRoutes: 404 for a task of another tenant or an archived project,
\* requireRole(FACULTY), 403 unless the actor is the author
TaskDeleteGateProjects(u, tid) ==
  IF ~HasTask(tid) THEN 404
  ELSE LET p == projects[Task(tid).projectId] IN
       IF p.collegeId # scope[u].collegeId \/ p.archived THEN 404
       ELSE IF "FACULTY" \notin Roles(u) THEN 403
       ELSE IF p.authorId # u THEN 403
       ELSE 0

TaskDeleteRead(r) ==
  /\ r.kind = "taskDelete" /\ r.pc = "read"
  /\ UNCHANGED <<projects, apps, tasks, nextId, scope, cache, lookup, sockets, attachments, comments, auditLog, started>>
  /\ LET code == IF r.handler = "projects"
                 THEN TaskDeleteGateProjects(r.actor, r.tid)
                 ELSE TaskGateCollaboration(r.actor, r.tid) IN
     IF code # 0 THEN Answer(r, code, None)
     ELSE Goto(r, [r EXCEPT !.pid = Task(r.tid).projectId, !.pc = "write"])

\* prisma.projectTask.delete({ where: { id } }): throws if the row is gone
TaskDeleteWrite(r) ==
  /\ r.kind = "taskDelete" /\ r.pc = "write"
  /\ UNCHANGED <<projects, apps, nextId, scope, cache, lookup, sockets, attachments, comments, auditLog, started>>
  /\ IF HasTask(r.tid)
     THEN /\ tasks' = tasks \ {Task(r.tid)}
          /\ Answer(r, 200, None)
     ELSE /\ UNCHANGED tasks
          /\ Answer(r, 500, None)

\* P1 of F1 with S1 accepted, S2 accepted or pending, one task and one
\* attachment uploaded by a member
CollabInit ==
  /\ projects = [p \in Projects |-> OpenProject(MaxStudentsCap)]
  /\ \E st \in {"ACCEPTED", "PENDING"}, who \in {"F1", "S1", "S2"} :
       /\ (who = "S2" => st = "ACCEPTED")
       /\ apps = SeedApps([s \in Students |-> IF s = "S1" THEN "ACCEPTED" ELSE st])
       /\ attachments = {[id |-> 1, projectId |-> "P1", uploaderId |-> who]}
  /\ tasks = {[id |-> 1, projectId |-> "P1", title |-> "t1",
               assignedToId |-> "S1", status |-> "TODO"]}
  /\ comments = {}
  /\ auditLog = {}
  /\ cache = NoCache /\ lookup = NoLookup /\ sockets = {}
  /\ nextId = 3
  /\ scope = HomeScope
  /\ inflight = EmptyBag
  /\ started = 0
  /\ last = NoLast

AttachmentIds == {a.id : a \in attachments}

Collaborators == Students \cup Faculty

CollabStart ==
  \/ \E kind \in CollabKinds, u \in Collaborators, pid \in Projects :
       \E h \in CollabHandlers(kind) : StartCollab(kind, h, u, pid)
  \/ \E u \in Collaborators, id \in AttachmentIds : StartAttachmentDelete(u, id)
  \/ \E h \in TaskHandlers, u \in Collaborators, tid \in TaskIds : StartTaskDelete(h, u, tid)
  \/ TaskAssignStart

CollabStep ==
  \/ \E r \in InFlight : CollabProject(r)
  \/ \E r \in InFlight : CollabMember(r)
  \/ \E r \in InFlight : CollabList(r)
  \/ \E r \in InFlight : CommentCreate(r)
  \/ \E r \in InFlight : AttachmentCreate(r)
  \/ \E r \in InFlight : AttachmentDeleteRead(r)
  \/ \E r \in InFlight : AttachmentDeleteWrite(r)
  \/ \E r \in InFlight : TaskDeleteRead(r)
  \/ \E r \in InFlight : TaskDeleteWrite(r)
  \/ TaskAssignStep

\* one request at a time
CollabNext == (inflight = EmptyBag /\ CollabStart) \/ CollabStep

CollabSpec == CollabInit /\ [][CollabNext]_vars

\* the requests that read or write a project's tasks, comments or attachments
MemberKinds ==
  CollabKinds \cup {"taskCreate", "taskUpdate", "taskDelete", "attachmentDelete"}

\* C12: a read or write of a project's tasks, attachments or comments
\* succeeds only if the actor is the project's author or has an ACCEPTED
\* application on it when the request is issued; another actor of the
\* project's tenant is answered Forbidden and no row is created, changed or
\* deleted
C12_MemberGated ==
  last.req.kind \in MemberKinds =>
    /\ ((last.resp \in {200, 201} \/ last.changed) => last.req.wasMember)
    /\ (~last.req.wasMember /\ last.req.sameTenant)
         => (last.resp = Forbidden /\ ~last.changed)

\* attachment uploads and deletes of overlapping requests
AttachmentStart ==
  \/ \E h \in TaskHandlers, u \in Collaborators, pid \in Projects :
       StartCollab("attachmentCreate", h, u, pid)
  \/ \E u \in Collaborators, id \in AttachmentIds : StartAttachmentDelete(u, id)

AttachmentStep ==
  \/ \E r \in InFlight : CollabProject(r)
  \/ \E r \in InFlight : CollabMember(r)
  \/ \E r \in InFlight : AttachmentCreate(r)
  \/ \E r \in InFlight : AttachmentDeleteRead(r)
  \/ \E r \in InFlight : AttachmentDeleteWrite(r)

AttachmentNext == AttachmentStart \/ AttachmentStep

AttachmentSpec == CollabInit /\ [][AttachmentNext]_vars

C20_ApplicationEventToAuthor ==
  (last.req.kind \in {"apply", "withdraw"} /\ last.changed)
    => last.emitted = {FacultyRoom(projects[last.req.pid].authorId)}

----------------------------------------------------------------------------
\* Project create: POST /v1/projects, and the sockets that hear of it

StartProjectCreate(u, deps, vis, client) ==
  Issue([NoReq EXCEPT !.kind = "projectCreate", !.handler = "projects", !.actor = u,
                      !.departments = deps, !.visibleToAllDepts = vis,
                      !.client = client, !.pc = "scope"])

\* requireRole(FACULTY) throws inside the try and the catch answers 500; 400
\* without a collegeId, and without departments when visibleToAllDepts is false
ProjectCreateGate(u, deps, vis) ==
  IF "FACULTY" \notin Roles(u) THEN 500
  ELSE IF scope[u].collegeId = None THEN 400
  ELSE IF ~vis /\ deps = {} THEN 400
  ELSE 0

ProjectCreateScope(r) ==
  /\ r.kind = "projectCreate" /\ r.pc = "scope"
  /\ UNCHANGED <<projects, apps, tasks, nextId, scope, cache, lookup, sockets, attachments, comments, auditLog, started>>
  /\ LET code == ProjectCreateGate(r.actor, r.departments, r.visibleToAllDepts) IN
     IF code # 0 THEN Answer(r, code, None)
     ELSE Goto(r, [r EXCEPT !.pc = "create"])

CreatedProjectMutant(r) ==
  [collegeId |-> IF r.client.collegeId # None THEN r.client.collegeId
                 ELSE scope[r.actor].collegeId,
   authorId |-> IF r.client.authorId # None THEN r.client.authorId ELSE r.actor,
   departments |-> r.departments, visibleToAllDepts |-> r.visibleToAllDepts,
   moderationStatus |-> "APPROVED", progressStatus |-> "OPEN", archived |-> FALSE,
   maxStudents |-> 1, deadlinePassed |-> FALSE]

\* a create that queues the project for moderation instead of approving it
CreatedProjectQueuedMutant(r) ==
  [collegeId |-> scope[r.actor].collegeId, authorId |-> r.actor,
   departments |-> r.departments, visibleToAllDepts |-> r.visibleToAllDepts,
   moderationStatus |-> "PENDING_APPROVAL", progressStatus |-> "OPEN",
   archived |-> FALSE, maxStudents |-> 1, deadlinePassed |-> FALSE]

\* the row prisma.project.create writes: collegeId from getUserScope, authorId
\* from the token, whatever the body carries
CreatedProject(r) ==
  [collegeId |-> scope[r.actor].collegeId, authorId |-> r.actor,
   departments |-> r.departments, visibleToAllDepts |-> r.visibleToAllDepts,
   moderationStatus |-> "APPROVED", progressStatus |-> "OPEN", archived |-> FALSE,
   maxStudents |-> 1, deadlinePassed |-> FALSE]

\* the id the datastore gives the n-th row it creates
ProjectKey(n) ==
  IF n = 1 THEN "P1" ELSE IF n = 2 THEN "P2" ELSE IF n = 3 THEN "P3" ELSE "P4"

\* prisma.project.create, then emitProjectUpdate({ type: 'new-project', ... })
ProjectCreateWrite(r) ==
  /\ r.kind = "projectCreate" /\ r.pc = "create"
  /\ UNCHANGED <<apps, tasks, scope, cache, lookup, sockets, attachments, comments, auditLog, started>>
  /\ projects' = projects @@ (ProjectKey(nextId) :> CreatedProject(r))
  /\ nextId' = nextId + 1
  /\ AnswerEmit(r, 200, None,
                EmitProjectUpdate(CreatedProject(r).collegeId, r.departments,
                                  r.visibleToAllDepts))

\* what a client may add to the body of POST /v1/projects
ClientFields == {NoClient, [collegeId |-> "T2", authorId |-> "S1"]}

\* no project yet; projects are keyed by the id the datastore gives them; the
\* scope of F2 resolves with or without a collegeId
ProjectCreateInit ==
  /\ projects = << >>
  /\ apps = {}
  /\ tasks = {}
  /\ nextId = 1
  /\ attachments = {} /\ comments = {} /\ auditLog = {}
  /\ cache = NoCache /\ lookup = NoLookup /\ sockets = {}
  /\ \E c \in {"T2", None} : scope = [HomeScope EXCEPT !["F2"].collegeId = c]
  /\ inflight = EmptyBag
  /\ started = 0
  /\ last = NoLast

ProjectCreateNext ==
  \/ \E u \in Faculty \cup Students, deps \in SUBSET Depts, vis \in BOOLEAN,
        client \in ClientFields : StartProjectCreate(u, deps, vis, client)
  \/ \E r \in InFlight : ProjectCreateScope(r)
  \/ \E r \in InFlight : ProjectCreateWrite(r)

ProjectCreateSpec == ProjectCreateInit /\ [][ProjectCreateNext]_vars

\* socket.data of a connection of tenant T1, department CS
ConnCS ==
  [userId |-> "S1", collegeId |-> "T1", department |-> "CS", roles |-> {"STUDENT"}]

\* socket.data of a connection of tenant T1, department EE
ConnEE ==
  [userId |-> "S2", collegeId |-> "T1", department |-> "EE", roles |-> {"STUDENT"}]

\* C19: when a faculty of tenant T1 creates a project with visibleToAllDepts
\* false and departments [CS], the new-project event is delivered to a
\* connection of tenant T1 department CS and not to one of tenant T1
\* department EE
C19_NewProjectToDepartment ==
  (last.req.kind = "projectCreate" /\ last.resp = 200
     /\ scope[last.req.actor].collegeId = "T1"
     /\ ~last.req.visibleToAllDepts /\ last.req.departments = {"CS"})
    => (Delivered(ConnCS, last.emitted) /\ ~Delivered(ConnEE, last.emitted))

----------------------------------------------------------------------------
\* Admin routes: GET /v1/admin/projects, /v1/admin/projects/export,
\* /v1/admin/projects/stats, /v1/admin/applications, /v1/admin/projects/:id,
\* PATCH /v1/admin/projects/:id/moderate, /v1/admin/projects/bulk-moderate
\* and /v1/admin/applications/:id/status.  Every handler calls
\* requireHeadAdmin inside its try; the catch answers 500.

\* requireHeadAdmin lets the actor in
IsAdmin(u) == Roles(u) \cap {"HEAD_ADMIN", "SUPER_ADMIN"} # {}

\* getCollegeFilter(adminPayload); None is undefined
GetCollegeFilter(u) ==
  IF "SUPER_ADMIN" \in Roles(u) THEN None
  ELSE IF "HEAD_ADMIN" \in Roles(u) THEN scope[u].collegeId
  ELSE None

\* if (collegeFilter) whereClause.collegeId = collegeFilter, with no optional
\* query filter
AdminWhere(u, p) ==
  GetCollegeFilter(u) # None => projects[p].collegeId = GetCollegeFilter(u)

\* the projects a listing, export or statistics query reads
AdminProjectRows(u) == {p \in DOMAIN projects : AdminWhere(u, p)}

\* the projects of the applications GET /v1/admin/applications returns
AdminApplicationRows(u) == {a.projectId : a \in {x \in apps : AdminWhere(u, x.projectId)}}

AdminListKinds == {"adminList", "adminExport", "adminStats", "adminApplications"}

\* the four queries: 500 from the catch for an actor requireHeadAdmin refuses
AdminQuery(kind, u) ==
  /\ kind \in AdminListKinds
  /\ IF ~IsAdmin(u) THEN ReadAnswer(kind, u, None, 500, {})
     ELSE ReadAnswer(kind, u, None, 200,
                     IF kind = "adminApplications" THEN AdminApplicationRows(u)
                     ELSE AdminProjectRows(u))

\* GET /v1/admin/projects/:id
AdminGetProject(u, pid) ==
  IF ~IsAdmin(u) THEN ReadAnswer("adminDetail", u, pid, 500, {})
  ELSE IF pid \notin DOMAIN projects THEN ReadAnswer("adminDetail", u, pid, 404, {})
  ELSE IF ~CanAccessCollege(u, projects[pid].collegeId)
       THEN ReadAnswer("adminDetail", u, pid, 403, {})
  ELSE ReadAnswer("adminDetail", u, pid, 200, {pid})

\* PATCH /v1/admin/projects/:id/moderate

ModerateActions == {"APPROVE", "REJECT", "ARCHIVE", "REOPEN"}

\* body.moderationStatus: absent or a status; the bodies give no progressStatus
ModerationOverrides == {None} \cup ModerationStatus

StartModerate(u, pid, action, override) ==
  Issue([NoReq EXCEPT !.kind = "moderate", !.handler = "admin", !.actor = u,
                      !.pid = pid, !.arg = action, !.override = override,
                      !.pc = "read"])

ModerateGate(u, pid) ==
  IF ~IsAdmin(u) THEN 500
  ELSE IF pid \notin DOMAIN projects THEN 404
  ELSE IF ~CanAccessCollege(u, projects[pid].collegeId) THEN 403
  ELSE 0

\* findUnique of currentProject, whose fields the update writes back
ModerateRead(r) ==
  /\ r.kind = "moderate" /\ r.pc = "read"
  /\ UNCHANGED <<projects, apps, tasks, nextId, scope, cache, lookup, sockets, attachments, comments, auditLog, started>>
  /\ LET code == ModerateGate(r.actor, r.pid) IN
     IF code # 0 THEN Answer(r, code, None)
     ELSE Goto(r, [r EXCEPT !.seenModeration = projects[r.pid].moderationStatus,
                            !.seenProgress = projects[r.pid].progressStatus,
                            !.seenArchived = projects[r.pid].archived,
                            !.pc = "write"])

\* the switch on action, then the manual override
NewModerationStatus(r) ==
  IF r.override # None THEN r.override
  ELSE IF r.arg = "APPROVE" THEN "APPROVED"
  ELSE IF r.arg = "REJECT" THEN "REJECTED"
  ELSE IF r.arg = "REOPEN" THEN "PENDING_APPROVAL"
  ELSE r.seenModeration

NewArchived(r) ==
  IF r.arg = "ARCHIVE" THEN TRUE
  ELSE IF r.arg = "REOPEN" THEN FALSE
  ELSE r.seenArchived

\* prisma.project.update({ where: { id }, data: { moderationStatus,
\* progressStatus, archivedAt } })
ModerateWrite(r) ==
  /\ r.kind = "moderate" /\ r.pc = "write"
  /\ UNCHANGED <<apps, tasks, nextId, scope, cache, lookup, sockets, attachments, comments, auditLog, started>>
  /\ projects' = [projects EXCEPT ![r.pid].moderationStatus = NewModerationStatus(r),
                                  ![r.pid].progressStatus = r.seenProgress,
                                  ![r.pid].archived = NewArchived(r)]
  /\ Goto(r, [r EXCEPT !.pc = "audit", !.wrote = TRUE])

\* the entry AuditLogger.logProjectModeration writes
ModerationAudit(r) ==
  [entity |-> "PROJECT", aid |-> 0, pids |-> {r.pid}, action |-> r.arg]

\* await AuditLogger.logProjectModeration(...): the write of the entry
\* succeeds, or it fails and the catch answers 500; the update stays committed
ModerateAudit(r) ==
  /\ r.kind = "moderate" /\ r.pc = "audit"
  /\ UNCHANGED <<projects, apps, tasks, nextId, scope, cache, lookup, sockets, attachments, comments, started>>
  /\ \/ /\ auditLog' = auditLog \cup {ModerationAudit(r)}
        /\ Answer(r, 200, None)
     \/ /\ UNCHANGED auditLog
        /\ Answer(r, 500, None)

\* PATCH /v1/admin/projects/bulk-moderate

StartBulkModerate(u, ids, action) ==
  Issue([NoReq EXCEPT !.kind = "bulkModerate", !.handler = "admin", !.actor = u,
                      !.ids = ids, !.arg = action, !.pc = "read"])

\* findMany({ where: { id: { in: projectIds } } }): 404 if none is found, 403
\* if one of them is out of the admin's reach
BulkModerateGate(u, ids) ==
  IF ~IsAdmin(u) THEN 500
  ELSE IF ids \cap DOMAIN projects = {} THEN 404
  ELSE IF \E p \in ids \cap DOMAIN projects : ~CanAccessCollege(u, projects[p].collegeId)
       THEN 403
  ELSE 0

BulkModerateRead(r) ==
  /\ r.kind = "bulkModerate" /\ r.pc = "read"
  /\ UNCHANGED <<projects, apps, tasks, nextId, scope, cache, lookup, sockets, attachments, comments, auditLog, started>>
  /\ LET code == BulkModerateGate(r.actor, r.ids) IN
     IF code # 0 THEN Answer(r, code, None)
     ELSE Goto(r, [r EXCEPT !.pc = "write"])

\* updateData of the action, applied to one row
BulkUpdated(row, action) ==
  IF action = "APPROVE" THEN [row EXCEPT !.moderationStatus = "APPROVED"]
  ELSE IF action = "REJECT" THEN [row EXCEPT !.moderationStatus = "REJECTED"]
  ELSE IF action = "ARCHIVE" THEN [row EXCEPT !.archived = TRUE]
  ELSE [row EXCEPT !.archived = FALSE, !.moderationStatus = "PENDING_APPROVAL"]

\* prisma.project.updateMany({ where: { id: { in: projectIds } }, data: updateData })
BulkModerateWrite(r) ==
  /\ r.kind = "bulkModerate" /\ r.pc = "write"
  /\ UNCHANGED <<apps, tasks, nextId, scope, cache, lookup, sockets, attachments, comments, auditLog, started>>
  /\ projects' = [p \in DOMAIN projects |->
                    IF p \in r.ids THEN BulkUpdated(projects[p], r.arg) ELSE projects[p]]
  /\ Goto(r, [r EXCEPT !.pc = "audit", !.wrote = TRUE])

\* the entry AuditLogger.logBulkOperation writes
BulkAudit(r) ==
  [entity |-> "PROJECT_BULK", aid |-> 0, pids |-> r.ids, action |-> r.arg]

\* await AuditLogger.logBulkOperation(...): as for the single moderation
BulkModerateAudit(r) ==
  /\ r.kind = "bulkModerate" /\ r.pc = "audit"
  /\ UNCHANGED <<projects, apps, tasks, nextId, scope, cache, lookup, sockets, attachments, comments, started>>
  /\ \/ /\ auditLog' = auditLog \cup {BulkAudit(r)}
        /\ Answer(r, 200, None)
     \/ /\ UNCHANGED auditLog
        /\ Answer(r, 500, None)

\* P1 of tenant T1 in any moderation status and P2 of tenant T2, each with
\* one application; the head admin AD1 of T1, whose scope may resolve
\* without a collegeId; the super admin SA1; the faculty F1
AdminProjects == {"P1", "P2"}

AdminProject(p, ms) ==
  [OpenProject(1) EXCEPT !.collegeId = IF p = "P1" THEN "T1" ELSE "T2",
                         !.authorId = IF p = "P1" THEN "F1" ELSE "F2",
                         !.moderationStatus = ms]

AdminInit ==
  /\ \E ms \in ModerationStatus :
       projects = [p \in AdminProjects |->
                     AdminProject(p, IF p = "P1" THEN ms ELSE "APPROVED")]
  /\ apps = {[id |-> 1, projectId |-> "P1", studentId |-> "S1", status |-> "PENDING"],
             [id |-> 2, projectId |-> "P2", studentId |-> "S3", status |-> "PENDING"]}
  /\ tasks = {}
  /\ nextId = 3
  /\ attachments = {} /\ comments = {} /\ auditLog = {}
  /\ cache = NoCache /\ lookup = NoLookup /\ sockets = {}
  /\ \E c \in {"T1", None} : scope = [HomeScope EXCEPT !["AD1"].collegeId = c]
  /\ inflight = EmptyBag
  /\ started = 0
  /\ last = NoLast

AdminActors == Admins \cup SuperAdmins \cup {"F1"}

AdminStart ==
  \/ \E k \in AdminListKinds, u \in AdminActors : AdminQuery(k, u)
  \/ \E u \in AdminActors, pid \in AdminProjects : AdminGetProject(u, pid)
  \/ \E u \in AdminActors, pid \in AdminProjects, a \in ModerateActions,
        o \in ModerationOverrides : StartModerate(u, pid, a, o)
  \/ \E u \in AdminActors, ids \in SUBSET AdminProjects \ {{}}, a \in ModerateActions :
       StartBulkModerate(u, ids, a)
  \/ \E u \in AdminActors, aid \in AppIds, st \in ApplicationStatus :
       StartAdminStatus(u, aid, st)

AdminStep ==
  \/ \E r \in InFlight : ModerateRead(r)
  \/ \E r \in InFlight : ModerateWrite(r)
  \/ \E r \in InFlight : ModerateAudit(r)
  \/ \E r \in InFlight : BulkModerateRead(r)
  \/ \E r \in InFlight : BulkModerateWrite(r)
  \/ \E r \in InFlight : BulkModerateAudit(r)
  \/ \E r \in InFlight : AdminStatusRead(r)
  \/ \E r \in InFlight : AdminStatusWrite(r)
  \/ \E r \in InFlight : AdminStatusAudit(r)

\* one admin request at a time
AdminNext ==
  \/ inflight = EmptyBag /\ started < MaxAdminReqs /\ AdminStart
  \/ AdminStep

AdminSpec == AdminInit /\ [][AdminNext]_vars

\* the actor holds HEAD_ADMIN and not SUPER_ADMIN
HeadAdminOnly(u) == "HEAD_ADMIN" \in Roles(u) /\ "SUPER_ADMIN" \notin Roles(u)

\* C14: for a HEAD_ADMIN who is not SUPER_ADMIN the admin listing, export,
\* statistics and application listing return only rows of the admin's own
\* tenant, also when the admin's scope has no tenant id; for a SUPER_ADMIN no
\* tenant filter is applied
C14_HeadAdminOwnTenant ==
  (last.req.kind \in AdminListKinds /\ last.resp = 200) =>
    /\ HeadAdminOnly(last.req.actor) =>
         \A p \in last.returned :
           projects[p].collegeId = scope[last.req.actor].collegeId
    /\ "SUPER_ADMIN" \in Roles(last.req.actor) =>
         last.returned = (IF last.req.kind = "adminApplications"
                          THEN {a.projectId : a \in apps} ELSE DOMAIN projects)

\* the projects of a request's target that are of another tenant than the actor
ForeignTargets(r) ==
  LET ps == IF r.kind = "bulkModerate" THEN r.ids
            ELSE IF r.kind = "adminStatus" THEN {Row(r.aid).projectId}
            ELSE {r.pid} IN
  {p \in ps : projects[p].collegeId # scope[r.actor].collegeId}

\* C15: a project detail read, a moderate or an application status override
\* by a HEAD_ADMIN on an entity of another tenant is denied and changes
\* nothing; a bulk-moderate whose list has a project of another tenant is
\* denied as a whole and updates no project
C15_OutOfScopeDenied ==
  (last.req.kind \in {"adminDetail", "moderate", "adminStatus", "bulkModerate"}
     /\ HeadAdminOnly(last.req.actor)
     /\ ForeignTargets(last.req) # {})
    => /\ last.resp = Forbidden
       /\ ~last.req.wrote /\ ~last.changed
       /\ last.returned = {}

\* a bulk-moderate of the head admin that names a project of each tenant was
\* denied
C15_Witness ==
  /\ last.req.kind = "bulkModerate" /\ HeadAdminOnly(last.req.actor)
  /\ last.req.ids = AdminProjects
  /\ scope[last.req.actor].collegeId = "T1"
  /\ last.resp = Forbidden

\* C16: an admin endpoint called by an actor who holds neither HEAD_ADMIN nor
\* SUPER_ADMIN changes nothing and is answered Forbidden
C16_NonAdminForbidden ==
  (last.req.kind \in AdminListKinds \cup {"adminDetail", "moderate", "adminStatus",
                                          "bulkModerate"}
     /\ ~IsAdmin(last.req.actor))
    => (last.resp = Forbidden /\ ~last.changed /\ ~last.req.wrote)

\* the moderation status changes the specification allows
AllowedModeration ==
  {<<"PENDING_APPROVAL", "APPROVED">>, <<"PENDING_APPROVAL", "REJECTED">>,
   <<"APPROVED", "PENDING_APPROVAL">>, <<"REJECTED", "PENDING_APPROVAL">>}

\* C17: a project's moderationStatus changes only from PENDING_APPROVAL to
\* APPROVED or REJECTED and from APPROVED or REJECTED to PENDING_APPROVAL,
\* never directly between APPROVED and REJECTED
C17_ModerationTransitions ==
  [][\A p \in DOMAIN projects :
       projects'[p].moderationStatus # projects[p].moderationStatus
         => <<projects[p].moderationStatus, projects'[p].moderationStatus>>
              \in AllowedModeration]_vars

\* the audit entry of an admin request
AuditEntry(r) ==
  IF r.kind = "adminStatus" THEN ApplicationAudit(r)
  ELSE IF r.kind = "moderate" THEN ModerationAudit(r)
  ELSE BulkAudit(r)

\* C18: when an admin override, moderate or bulk-moderate request that
\* committed its change has finished, the audit log holds the entry of the
\* change, also when the audit write failed
C18_ChangeAudited ==
  (last.req.kind \in {"adminStatus", "moderate", "bulkModerate"} /\ last.req.wrote)
    => AuditEntry(last.req) \in auditLog

----------------------------------------------------------------------------
\* Owner archive: DELETE /v1/projects/:id, and the owner endpoints under
\* every scope getUserScope can resolve for the author

StartProjectDelete(u, pid) ==
  Issue([NoReq EXCEPT !.kind = "projectDelete", !.handler = "projects", !.actor = u,
                      !.pid = pid, !.pc = "read"])

\* requireRole, then the same findFirst as the update
ProjectDeleteRead(r) ==
  /\ r.kind = "projectDelete" /\ r.pc = "read"
  /\ UNCHANGED <<projects, apps, tasks, nextId, scope, cache, lookup, sockets, attachments, comments, auditLog, started>>
  /\ LET code == ProjectUpdateGate(r.actor, r.pid) IN
     IF code # 0 THEN Answer(r, code, None)
     ELSE Goto(r, [r EXCEPT !.pc = "write"])

\* prisma.project.update({ where: { id }, data: { archivedAt: new Date() } })
ProjectDeleteWrite(r) ==
  /\ r.kind = "projectDelete" /\ r.pc = "write"
  /\ UNCHANGED <<apps, tasks, nextId, scope, cache, lookup, sockets, attachments, comments, auditLog, started>>
  /\ projects' = [projects EXCEPT ![r.pid].archived = TRUE]
  /\ Answer(r, 200, None)

\* the scopes getUserScope resolves for a faculty user: a tenant, or none
OwnerScopes == Tenants \cup {None}

\* P1 of tenant T1 by F1; each faculty user with any resolved tenant
OwnerInit ==
  /\ \E n \in 1..MaxStudentsCap : projects = [p \in Projects |-> OpenProject(n)]
  /\ apps = {}
  /\ tasks = {}
  /\ nextId = 1
  /\ attachments = {} /\ comments = {} /\ auditLog = {}
  /\ cache = NoCache /\ lookup = NoLookup /\ sockets = {}
  /\ \E c \in [Faculty -> OwnerScopes] :
       scope = [u \in Users |-> IF u \in Faculty
                                THEN [collegeId |-> c[u], department |-> "CS"]
                                ELSE HomeScope[u]]
  /\ inflight = EmptyBag
  /\ started = 0
  /\ last = NoLast

OwnerActors == Faculty \cup {"S1"}

OwnerNext ==
  \/ \E u \in OwnerActors, pid \in Projects, n \in 1..MaxStudentsCap :
       StartProjectUpdate(u, pid, n)
  \/ \E u \in OwnerActors, pid \in Projects : StartProjectDelete(u, pid)
  \/ \E r \in InFlight : ProjectUpdateRead(r)
  \/ \E r \in InFlight : ProjectUpdateWrite(r)
  \/ \E r \in InFlight : ProjectDeleteRead(r)
  \/ \E r \in InFlight : ProjectDeleteWrite(r)

OwnerSpec == OwnerInit /\ [][OwnerNext]_vars

\* the mutations the notifier has an event type for
NotifiedKinds == {"projectCreate", "projectUpdate", "projectDelete", "status", "commentCreate"}

\* C21: a successful project create, project update, project archive,
\* faculty application status change or comment creation is followed by the
\* emission of its event
C21_MutationEmitsEvent ==
  (last.req.kind \in NotifiedKinds /\ last.resp \in {200, 201})
    => last.emitted # {}

\* C28: a project is updated or archived through PUT or DELETE
\* /v1/projects/:id only by its author with a resolved tenant equal to the
\* project's tenant; any other actor is rejected and the row is unchanged
C28_OwnerSameTenantOnly ==
  (last.req.kind \in {"projectUpdate", "projectDelete"}
     /\ (last.resp = 200 \/ last.changed))
    => /\ projects[last.req.pid].authorId = last.req.actor
       /\ scope[last.req.actor].collegeId = projects[last.req.pid].collegeId

\* the requests whose handler calls emitProjectUpdate or emitApplicationUpdate
\* after its write
CallsNotifier(r) ==
  \/ r.kind \in {"projectCreate", "apply"}
  \/ r.kind = "withdraw" /\ r.handler = "student"
  \/ r.kind \in {"taskCreate", "taskUpdate", "attachmentCreate"}
       /\ r.handler = "collaboration"

\* C22: a request whose handler calls the notifier and whose datastore
\* mutation has committed is answered with success, whatever happens inside
\* the notifier
C22_NotifierFailureDropped ==
  (CallsNotifier(last.req) /\ last.changed) => last.resp \in {200, 201}

----------------------------------------------------------------------------
\* Real-time connections (utils/websocket): io.use authenticates the
\* handshake, io.on('connection') joins the rooms

\* the handshake carries no token, a token verifyAccessToken refuses, or a
\* token it accepts
TokenKinds == {"missing", "invalid", "valid"}

\* io.use: next() is called without an error
Authenticated(kind) == kind = "valid"

\* socket.data of an accepted handshake; collegeId and department are what
\* getUserScopeFromJWT finds in the token
SocketData(u, cid, dept) ==
  [userId |-> u, collegeId |-> cid, department |-> dept, roles |-> Roles(u)]

\* a handshake: a refused one never reaches io.on('connection')
Connect(u, kind, cid, dept) ==
  /\ Cardinality(sockets) < MaxSockets
  /\ kind # "valid" => (cid = None /\ dept = None)
  /\ sockets' = sockets \cup
       {[data |-> SocketData(u, cid, dept), token |-> kind,
         connected |-> Authenticated(kind),
         rooms |-> IF Authenticated(kind) THEN JoinedRooms(SocketData(u, cid, dept))
                   ELSE {}]}
  /\ UNCHANGED <<projects, apps, tasks, nextId, scope, cache, lookup, attachments, comments, auditLog, inflight, started, last>>

\* socket.on('disconnect')
Disconnect(s) ==
  /\ s \in sockets
  /\ sockets' = sockets \ {s}
  /\ UNCHANGED <<projects, apps, tasks, nextId, scope, cache, lookup, attachments, comments, auditLog, inflight, started, last>>

SocketInit ==
  /\ projects = [p \in Projects |-> OpenProject(1)]
  /\ apps = {}
  /\ tasks = {}
  /\ nextId = 1
  /\ attachments = {} /\ comments = {} /\ auditLog = {}
  /\ cache = NoCache /\ lookup = NoLookup /\ sockets = {}
  /\ scope = HomeScope
  /\ inflight = EmptyBag
  /\ started = 0
  /\ last = NoLast

SocketUsers == {"S1", "F1", "AD1"}

SocketNext ==
  \/ \E u \in SocketUsers, kind \in TokenKinds, cid \in Tenants \cup {None},
        dept \in Depts \cup {None} : Connect(u, kind, cid, dept)
  \/ \E s \in sockets : Disconnect(s)

SocketSpec == SocketInit /\ [][SocketNext]_vars

\* the channels the specification gives an authenticated connection
SubscribedChannels(d) ==
  (IF d.collegeId # None THEN {ProjectsRoom(d.collegeId)} ELSE {})
    \cup (IF d.collegeId # None /\ d.department # None
          THEN {DeptRoom(d.collegeId, d.department)} ELSE {})
    \cup (IF "FACULTY" \in d.roles THEN {FacultyRoom(d.userId)} ELSE {})

\* C23: a connection whose authentication fails joins no channel; one whose
\* authentication succeeds is subscribed to exactly its tenant channel, its
\* tenant+department channel when the department is known, and its per-user
\* application channel if and only if its roles include FACULTY
C23_ConnectionChannels ==
  \A s \in sockets :
    /\ ~Authenticated(s.token) => s.rooms = {}
    /\ Authenticated(s.token) => s.rooms = SubscribedChannels(s.data)

----------------------------------------------------------------------------
\* Scope resolution: getUserScope(req, payload) of clients/profile, with its
\* cache, the token's own scope, the identity service and the profile service

\* getUserScope's test jwtScope.collegeId && jwtScope.department
Complete(sc) == sc.collegeId # None /\ sc.department # None

\* the scopes a token, the identity service or a profile can carry
ScopeValues ==
  {NoScope, [collegeId |-> "T1", department |-> None],
   [collegeId |-> "T1", department |-> "CS"]}

\* getUserIdentity(sub, auth): it returns an identity or it throws
IdentityOutcomes ==
  {[ok |-> FALSE, collegeId |-> None, department |-> None]}
    \cup {[ok |-> TRUE, collegeId |-> sc.collegeId, department |-> sc.department] :
            sc \in ScopeValues \ {NoScope}}

\* fetch of /v1/profile/me: a response that is ok, a response that is not
\* ok, or a rejected fetch (network error)
ProfileOutcomes ==
  {[outcome |-> o, collegeId |-> None, department |-> None] : o \in {"error", "network"}}
    \cup {[outcome |-> "ok", collegeId |-> sc.collegeId, department |-> sc.department] :
            sc \in {NoScope, [collegeId |-> "T1", department |-> "CS"]}}

GetCachedScopeMutant(entry, readFails) == entry

\* getCachedScope(cacheKey): the parsed entry, or null when the key is absent
\* or cache.get throws
GetCachedScope(entry, readFails) == IF readFails THEN NoEntry ELSE entry

\* setCachedScope(cacheKey, scope): a throw of cache.set is caught
SetCachedScope(c, u, sc, writeFails) ==
  IF writeFails THEN c
  ELSE [c EXCEPT ![u] = [present |-> TRUE, collegeId |-> sc.collegeId,
                         department |-> sc.department]]

ScopeOf(x) == [collegeId |-> x.collegeId, department |-> x.department]

\* a source getUserScope asked, and the scope it gave (NoScope when it gave none)
Tier(name, sc) == [tier |-> name, scope |-> sc]

\* a resolver that asks the identity service whatever the token carries
ResolutionEagerMutant(entry, in) ==
  [raised |-> FALSE, scope |-> in.token, store |-> FALSE, hit |-> FALSE,
   consulted |-> <<Tier("cache", NoScope), Tier("token", in.token),
                   Tier("identity", ScopeOf(in.identity))>>]

\* the tiers of getUserScope for a call with these inputs when the cache
\* holds entry: raised is a throw, store is a call of setCachedScope,
\* consulted the sources asked, in the order they were asked
Resolution(entry, in) ==
  LET got == GetCachedScope(entry, in.readFails)
      c1 == <<Tier("cache", ScopeOf(got))>>
      c2 == Append(c1, Tier("token", in.token))
      c3 == Append(c2, Tier("identity", IF in.identity.ok THEN ScopeOf(in.identity)
                                        ELSE NoScope))
      c4 == Append(c3, Tier("profile", IF in.profile.outcome = "ok"
                                       THEN ScopeOf(in.profile) ELSE NoScope)) IN
  IF got.present
  THEN [raised |-> FALSE, scope |-> ScopeOf(got), store |-> FALSE, hit |-> TRUE,
        consulted |-> c1]
  ELSE IF Complete(in.token)
  THEN [raised |-> FALSE, scope |-> in.token, store |-> TRUE, hit |-> FALSE,
        consulted |-> c2]
  ELSE IF ~in.header
  THEN [raised |-> TRUE, scope |-> NoScope, store |-> FALSE, hit |-> FALSE,
        consulted |-> c2]
  ELSE IF in.identity.ok
  THEN [raised |-> FALSE, scope |-> ScopeOf(in.identity), store |-> TRUE, hit |-> FALSE,
        consulted |-> c3]
  ELSE IF in.profile.outcome = "network"
  THEN [raised |-> TRUE, scope |-> NoScope, store |-> FALSE, hit |-> FALSE,
        consulted |-> c4]
  ELSE IF in.profile.outcome = "error"
  THEN [raised |-> FALSE, scope |-> NoScope, store |-> FALSE, hit |-> FALSE,
        consulted |-> c4]
  ELSE [raised |-> FALSE, scope |-> ScopeOf(in.profile), store |-> TRUE, hit |-> FALSE,
        consulted |-> c4]

\* one call of getUserScope
GetUserScope(u, token, header, readFails, writeFails, identity, profile) ==
  LET in == [NoLookup EXCEPT !.sub = u, !.token = token, !.header = header,
                             !.readFails = readFails, !.writeFails = writeFails,
                             !.identity = identity, !.profile = profile]
      res == Resolution(cache[u], in) IN
  /\ cache' = IF res.store THEN SetCachedScope(cache, u, res.scope, writeFails)
              ELSE cache
  /\ lookup' = [in EXCEPT !.raised = res.raised, !.scope = res.scope, !.hit = res.hit,
                           !.consulted = res.consulted]
  /\ UNCHANGED <<projects, apps, tasks, nextId, scope, sockets, attachments, comments, auditLog, inflight, started, last>>

\* the TTL of an entry runs out (CACHE_TTL.USER_SCOPE)
Expire(u) ==
  /\ cache[u].present
  /\ cache' = [cache EXCEPT ![u] = NoEntry]
  /\ UNCHANGED <<projects, apps, tasks, nextId, scope, lookup, sockets, attachments, comments, auditLog, inflight, started, last>>

ScopeInit ==
  /\ projects = [p \in Projects |-> OpenProject(1)]
  /\ apps = {}
  /\ tasks = {}
  /\ nextId = 1
  /\ attachments = {} /\ comments = {} /\ auditLog = {}
  /\ cache = NoCache /\ lookup = NoLookup /\ sockets = {}
  /\ scope = HomeScope
  /\ inflight = EmptyBag
  /\ started = 0
  /\ last = NoLast

ScopeUsers == {"F1"}

ScopeNext ==
  \/ \E u \in ScopeUsers, token \in ScopeValues, header \in BOOLEAN,
        readFails \in BOOLEAN, writeFails \in BOOLEAN,
        identity \in IdentityOutcomes, profile \in ProfileOutcomes :
       GetUserScope(u, token, header, readFails, writeFails, identity, profile)
  \/ \E u \in ScopeUsers : Expire(u)

ScopeSpec == ScopeInit /\ [][ScopeNext]_vars

\* C24: when the token carries no complete scope and both the identity
\* lookup and the profile lookup fail, by an error response or by a network
\* error, getUserScope returns the minimal scope and does not raise
C24_MinimalScopeOnFailure ==
  (lookup.sub # None /\ ~lookup.hit /\ ~Complete(lookup.token) /\ lookup.header
     /\ ~lookup.identity.ok /\ lookup.profile.outcome \in {"error", "network"})
    => (~lookup.raised /\ lookup.scope = NoScope)

\* C25: getUserScope answers from the cache only when the cached scope is
\* complete, and never returns an incomplete scope when the presented token
\* carries a complete one
C25_CacheOnlyIfComplete ==
  lookup.sub # None =>
    /\ lookup.hit => Complete(lookup.scope)
    /\ (Complete(lookup.token) /\ ~lookup.raised) => Complete(lookup.scope)

\* C26: a call whose cache read failed, or whose cache write failed, returns
\* or raises exactly what the same call does with an empty cache: the cache
\* failure itself never fails the call
C26_CacheFailureIsMiss ==
  (lookup.sub # None /\ (lookup.readFails \/ (lookup.writeFails /\ ~lookup.hit)))
    => LET res == Resolution(NoEntry, [lookup EXCEPT !.readFails = FALSE]) IN
       /\ lookup.raised = res.raised
       /\ lookup.scope = res.scope

\* both cache calls failed while the cache held an incomplete scope, and the
\* call returned the complete scope of the token
C26_Witness ==
  /\ lookup.sub # None /\ lookup.readFails /\ lookup.writeFails
  /\ cache[lookup.sub].present /\ ~Complete(ScopeOf(cache[lookup.sub]))
  /\ ~lookup.raised /\ Complete(lookup.scope)

----------------------------------------------------------------------------
\* Properties of project creation

\* C27: a project is created only for an actor who holds FACULTY and whose
\* resolved scope has a tenant id; a faculty actor without a tenant id is
\* answered 400 and no row is created; every created row carries the resolved
\* tenant id and the actor's id as author, whatever the client supplied
C27_CreateByScopedFaculty ==
  /\ \A p \in DOMAIN projects :
       /\ "FACULTY" \in Roles(projects[p].authorId)
       /\ scope[projects[p].authorId].collegeId # None
       /\ projects[p].collegeId = scope[projects[p].authorId].collegeId
  /\ last.req.kind = "projectCreate" =>
       /\ ("FACULTY" \in Roles(last.req.actor) /\ scope[last.req.actor].collegeId = None)
            => (last.resp = 400 /\ ~last.changed)
       /\ last.changed =>
            /\ last.resp = 200
            /\ "FACULTY" \in Roles(last.req.actor)
            /\ scope[last.req.actor].collegeId # None
            /\ \E p \in DOMAIN projects : projects[p].authorId = last.req.actor
       /\ last.resp = 200 => last.changed

\* F1 created a project with a body that names another tenant and another
\* author
C27_Witness ==
  /\ last.req.kind = "projectCreate" /\ last.req.actor = "F1"
  /\ last.req.client.collegeId = "T2" /\ last.req.client.authorId = "S1"
  /\ last.resp = 200 /\ last.changed

----------------------------------------------------------------------------
\* Properties of the apply handlers

\* C29: with no other request in flight, an apply request creates an
\* application row only if the actor holds STUDENT, the project is APPROVED,
\* not COMPLETED, has fewer ACCEPTED applications than maxStudents, its
\* deadline has not passed, it is visible to the actor's department and the
\* actor had no application on it; for either apply handler
C29_ApplyPreconditions ==
  (last.req.kind = "apply" /\ last.changed) =>
    LET p == projects[last.req.pid]
        u == last.req.actor IN
    /\ "STUDENT" \in Roles(u)
    /\ p.moderationStatus = "APPROVED"
    /\ p.progressStatus # "COMPLETED"
    /\ AcceptedCount(last.req.pid) < p.maxStudents
    /\ ~p.deadlinePassed
    /\ DeptVisible(p, scope[u].department)
    /\ ~last.req.hadRow

----------------------------------------------------------------------------
\* A student's requests addressed at one project, viewable or not: single
\* read, apply, and the task, comment and attachment routes

\* any project row; the student S1 of tenant T1, department CS, an accepted
\* member of the project or not
AddressedInit ==
  /\ projects \in [Projects -> ProjectRows]
  /\ \E st \in {None, "ACCEPTED"} :
       apps = SeedApps([s \in Students |-> IF s = "S1" THEN st ELSE None])
  /\ tasks = {}
  /\ nextId = 3
  /\ attachments = {} /\ comments = {} /\ auditLog = {}
  /\ cache = NoCache /\ lookup = NoLookup /\ sockets = {}
  /\ scope = HomeScope
  /\ inflight = EmptyBag
  /\ started = 0
  /\ last = NoLast

\* one request of S1 at a time
AddressedNext ==
  \/ /\ inflight = EmptyBag
     /\ \/ \E pid \in Projects : GetProject("S1", pid)
        \/ \E h \in ApplyHandlers, pid \in Projects : StartApply(h, "S1", pid)
        \/ \E kind \in CollabKinds, pid \in Projects :
             \E h \in CollabHandlers(kind) : StartCollab(kind, h, "S1", pid)
  \/ \E r \in InFlight : ApplyProject(r)
  \/ \E r \in InFlight : ApplyExisting(r)
  \/ \E r \in InFlight : ApplyCreate(r)
  \/ \E r \in InFlight : CollabProject(r)
  \/ \E r \in InFlight : CollabMember(r)
  \/ \E r \in InFlight : CollabList(r)
  \/ \E r \in InFlight : CommentCreate(r)
  \/ \E r \in InFlight : AttachmentCreate(r)

AddressedSpec == AddressedInit /\ [][AddressedNext]_vars

\* C30: every endpoint a student addresses at a project the student may not
\* view (other tenant, not APPROVED, archived, or not visible to the
\* student's department) answers NotFound, as for an unknown id
C30_HiddenProjectNotFound ==
  (last.req.actor \in Students /\ last.req.pid # None
     /\ last.req.kind \in {"read", "apply"} \cup CollabKinds
     /\ ~CanView(scope[last.req.actor], projects[last.req.pid]))
    => last.resp = NotFound

----------------------------------------------------------------------------
\* Requests without a usable credential: requireAuth(req) is the first call
\* of every handler of projectsRoutes and, through requireHeadAdmin, of
\* adminRoutes

\* the Authorization header is absent, or its token fails verifyAccessToken
Credentials == {"missing", "invalid"}

\* handlers that call requireAuth inside a try whose catch answers 500
WrappedRoutes ==
  {"GET /v1/projects", "POST /v1/projects", "GET /v1/admin/projects",
   "GET /v1/admin/projects/:id", "PATCH /v1/admin/projects/:id/moderate",
   "PATCH /v1/admin/projects/bulk-moderate", "GET /v1/admin/projects/export",
   "GET /v1/admin/projects/stats", "GET /v1/admin/applications",
   "PATCH /v1/admin/applications/:id/status"}

\* handlers of projectsRoutes that call requireAuth with no try around it
BareRoutes ==
  {"GET /v1/projects/:id", "GET /v1/projects/mine", "PUT /v1/projects/:id",
   "DELETE /v1/projects/:id", "POST /v1/projects/:id/applications",
   "GET /v1/projects/:id/applications", "GET /v1/applications/mine",
   "PUT /v1/applications/:id/status", "POST /v1/projects/:id/comments",
   "PUT /v1/tasks/:taskId", "POST /v1/projects/:id/attachments"}

\* requireAuth: the statusCode of the error it throws; 0 is an error with no
\* statusCode (the one verifyAccessToken rethrows)
RequireAuth(cred) == IF cred = "missing" THEN 401 ELSE 0

\* the answer to the throw: the handler's catch answers 500; without a catch
\* the framework answers the error's statusCode, or 500 when it has none
ThrownAnswer(route, statusCode) ==
  IF route \in WrappedRoutes THEN 500
  ELSE IF statusCode >= 400 THEN statusCode
  ELSE 500

Unauthenticated(route, cred) ==
  /\ last' = [req |-> [NoReq EXCEPT !.kind = "unauthenticated", !.handler = route,
                                    !.arg = cred],
              resp |-> ThrownAnswer(route, RequireAuth(cred)), before |-> None,
              changed |-> FALSE, returned |-> {}, emitted |-> {}]
  /\ UNCHANGED <<projects, apps, tasks, nextId, scope, cache, lookup, sockets, attachments, comments, auditLog, inflight, started>>

\* the owner requests, and requests without a usable credential
CredentialNext ==
  \/ OwnerNext
  \/ \E route \in WrappedRoutes \cup BareRoutes, cred \in Credentials :
       Unauthenticated(route, cred)

CredentialSpec == OwnerInit /\ [][CredentialNext]_vars

\* C31: a request with no bearer credential or an invalid one is answered
\* Unauthorized on every authenticated endpoint and changes nothing
C31_UnauthorizedEverywhere ==
  last.req.kind = "unauthenticated" => (last.resp = Unauthorized /\ ~last.changed)

-----------------------------------------------------------------------------
\* A created project and the students of its tenant

-----------------------------------------------------------------------------
\* An archived project: the owner's DELETE /v1/projects/:id, then the
\* non-admin requests addressed at the project, one request at a time

\* the requests that write a row of the project
ProjectWriteKinds == {"apply", "taskCreate", "commentCreate", "attachmentCreate"}

\* P1 of tenant T1 by F1, open and approved; S1 an accepted member or not
ArchivedInit ==
  /\ \E n \in 1..MaxStudentsCap : projects = [p \in Projects |-> OpenProject(n)]
  /\ \E st \in {None, "ACCEPTED"} :
       apps = SeedApps([s \in Students |-> IF s = "S1" THEN st ELSE None])
  /\ tasks = {}
  /\ nextId = 3
  /\ attachments = {} /\ comments = {} /\ auditLog = {}
  /\ cache = NoCache /\ lookup = NoLookup /\ sockets = {}
  /\ scope = HomeScope
  /\ inflight = EmptyBag
  /\ started = 0
  /\ last = NoLast

ArchivedStart ==
  \/ \E u \in {"F1", "F2"}, pid \in Projects : StartProjectDelete(u, pid)
  \/ \E u \in Students \cup {"F1"} : ListProjects(u)
  \/ \E u \in Students \cup {"F1"}, pid \in Projects : GetProject(u, pid)
  \/ \E h \in ApplyHandlers, u \in Students, pid \in Projects : StartApply(h, u, pid)
  \/ \E kind \in CollabKinds, u \in {"S1", "F1"}, pid \in Projects :
       \E h \in CollabHandlers(kind) : StartCollab(kind, h, u, pid)
  \/ \E h \in TaskHandlers, u \in {"S1", "F1"}, pid \in Projects,
        b \in TaskCreateBodies : StartTaskCreate(h, u, pid, b)

ArchivedStep ==
  \/ \E r \in InFlight : ProjectDeleteRead(r)
  \/ \E r \in InFlight : ProjectDeleteWrite(r)
  \/ \E r \in InFlight : ApplyProject(r)
  \/ \E r \in InFlight : ApplyExisting(r)
  \/ \E r \in InFlight : ApplyCreate(r)
  \/ \E r \in InFlight : CollabProject(r)
  \/ \E r \in InFlight : CollabMember(r)
  \/ \E r \in InFlight : CollabList(r)
  \/ \E r \in InFlight : CommentCreate(r)
  \/ \E r \in InFlight : AttachmentCreate(r)
  \/ \E r \in InFlight : TaskCreateRead(r)
  \/ \E r \in InFlight : TaskCreateMember(r)
  \/ \E r \in InFlight : TaskCreateWrite(r)

ArchivedNext == (inflight = EmptyBag /\ ArchivedStart) \/ ArchivedStep

ArchivedSpec == ArchivedInit /\ [][ArchivedNext]_vars

\* C33: once the owner's delete has archived a project (the row stays, with
\* archivedAt set), no listing or single read of a non-admin returns it, every
\* non-admin write addressed at it is rejected and changes nothing, and a
\* repeated owner delete is answered NotFound and changes nothing
C33_ArchivedIsClosed ==
  \A pid \in Projects :
    (projects[pid].archived /\ last.req.pid \in {pid, None}) =>
      /\ last.req.kind = "projectDelete" =>
           \/ last.resp = 200 /\ last.changed
           \/ last.resp = NotFound /\ ~last.changed
      /\ last.req.kind \in {"list", "read"} => pid \notin last.returned
      /\ last.req.kind \in ProjectWriteKinds =>
           (last.resp >= 400 /\ ~last.changed)

-----------------------------------------------------------------------------
\* The order in which getUserScope asks its sources

TierOrder == <<"cache", "token", "identity", "profile">>

\* C34: getUserScope asks its sources in the order cache, token, identity
\* service, profile service; it asks a later source only if every earlier one
\* gave no complete scope, and it calls neither service when the cache or the
\* token gives a complete scope
C34_TiersInOrder ==
  lookup.sub # None =>
    LET c == lookup.consulted IN
    /\ Len(c) \in 1..Len(TierOrder)
    /\ \A i \in 1..Len(c) : c[i].tier = TierOrder[i]
    /\ \A i \in 2..Len(c) : \A j \in 1..(i - 1) : ~Complete(c[j].scope)
    /\ ((lookup.hit /\ Complete(lookup.scope)) \/ Complete(lookup.token))
         => \A i \in 1..Len(c) : c[i].tier \notin {"identity", "profile"}

\* the cache missed and the token carried a complete scope: the call stopped
\* at the token although the header was there and the identity service would
\* have answered
C34_Witness ==
  /\ lookup.sub # None /\ ~lookup.hit /\ Complete(lookup.token)
  /\ lookup.header /\ lookup.identity.ok
  /\ Len(lookup.consulted) = 2

-----------------------------------------------------------------------------
\* getUserScope call by call: the handler awaits getUserIdentity and then
\* fetch; each await ends when the service answers, and the code starts no
\* timer beside it

StartScoped(u, token, header) ==
  Issue([NoReq EXCEPT !.kind = "scoped", !.handler = "projects", !.actor = u,
                      !.token = token, !.header = header, !.pc = "cache"])

\* getCachedScope, the token's scope and the header test, up to the call of
\* getUserIdentity; a throw of getUserScope is answered 500
ScopeLocal(r) ==
  /\ r.kind = "scoped" /\ r.pc = "cache"
  /\ UNCHANGED <<projects, apps, tasks, nextId, scope, lookup, sockets, attachments, comments, auditLog, started>>
  /\ IF cache[r.actor].present
     THEN UNCHANGED cache /\ Answer(r, 200, None)
     ELSE IF Complete(r.token)
     THEN /\ cache' = SetCachedScope(cache, r.actor, r.token, FALSE)
          /\ Answer(r, 200, None)
     ELSE IF ~r.header
     THEN UNCHANGED cache /\ Answer(r, 500, None)
     ELSE UNCHANGED cache /\ Goto(r, [r EXCEPT !.pc = "identity"])

\* the identity service answers: the handler returns the identity's scope, or
\* on a throw calls fetch on the profile service
IdentityReturns(r, identity) ==
  /\ r.kind = "scoped" /\ r.pc = "identity"
  /\ UNCHANGED <<projects, apps, tasks, nextId, scope, lookup, sockets, attachments, comments, auditLog, started>>
  /\ IF identity.ok
     THEN /\ cache' = SetCachedScope(cache, r.actor, ScopeOf(identity), FALSE)
          /\ Answer(r, 200, None)
     ELSE UNCHANGED cache /\ Goto(r, [r EXCEPT !.pc = "profile"])

\* the profile service answers, or the fetch is rejected
ProfileReturns(r, profile) ==
  /\ r.kind = "scoped" /\ r.pc = "profile"
  /\ UNCHANGED <<projects, apps, tasks, nextId, scope, lookup, sockets, attachments, comments, auditLog, started>>
  /\ IF profile.outcome = "network"
     THEN UNCHANGED cache /\ Answer(r, 500, None)
     ELSE IF profile.outcome = "error"
     THEN UNCHANGED cache /\ Answer(r, 200, None)
     ELSE /\ cache' = SetCachedScope(cache, r.actor, ScopeOf(profile), FALSE)
          /\ Answer(r, 200, None)

PendingNext ==
  \/ \E u \in {"S1", "F1"}, token \in ScopeValues, header \in BOOLEAN :
       StartScoped(u, token, header)
  \/ \E r \in InFlight : ScopeLocal(r)
  \/ \E r \in InFlight, identity \in IdentityOutcomes : IdentityReturns(r, identity)
  \/ \E r \in InFlight, profile \in ProfileOutcomes : ProfileReturns(r, profile)

\* the handler's own steps are taken when they can be; nothing obliges a
\* service to answer
PendingSpec ==
  /\ ScopeInit
  /\ [][PendingNext]_vars
  /\ WF_vars(\E r \in InFlight : ScopeLocal(r))

\* C35: every request eventually completes with a response, whether or not
\* the identity service and the profile service ever answer
C35_EveryRequestCompletes == (inflight # EmptyBag) ~> (inflight = EmptyBag)

-----------------------------------------------------------------------------
\* Admin moderation beside the owner's archive and other admin actions on the
\* same project, with nothing keeping their steps apart

ModerateRaceNext ==
  \/ \E u \in Admins \cup SuperAdmins, a \in ModerateActions :
       StartModerate(u, "P1", a, None)
  \/ StartProjectDelete("F1", "P1")
  \/ \E r \in InFlight : ModerateRead(r)
  \/ \E r \in InFlight : ModerateWrite(r)
  \/ \E r \in InFlight : ModerateAudit(r)
  \/ \E r \in InFlight : ProjectDeleteRead(r)
  \/ \E r \in InFlight : ProjectDeleteWrite(r)

ModerateRaceSpec == AdminInit /\ [][ModerateRaceNext]_vars

\* the fields of a project row a moderation action names
ActionFields(action) ==
  IF action = "ARCHIVE" THEN {"archived"}
  ELSE IF action = "REOPEN" THEN {"archived", "moderationStatus"}
  ELSE {"moderationStatus"}

\* C36: the write of a moderation request changes, relative to the row as it
\* is at the moment of the write, only the fields its action names; what an
\* owner archive or another admin action committed since the request's read
\* stays as committed
C36_WriteOnlyNamedFields ==
  [][\A r \in InFlight :
       (r.kind = "moderate" /\ r.pc = "write" /\ r.override = None
          /\ [r EXCEPT !.pc = "audit", !.wrote = TRUE] \in BagToSet(inflight')
          /\ [r EXCEPT !.pc = "audit", !.wrote = TRUE] \notin InFlight)
         => \A f \in {"archived", "moderationStatus", "progressStatus"} \ ActionFields(r.arg) :
              projects'[r.pid][f] = projects[r.pid][f]]_vars

-----------------------------------------------------------------------------
\* Delivery: connections, and the events of project create and student apply

\* the users that connect; a token carries its user's department and its
\* user's tenant, or no tenant
DeliveryUsers == {"S1", "F1", "F2"}

DeliveryNext ==
  \/ \E u \in DeliveryUsers :
       \E cid \in {HomeScope[u].collegeId, None} :
         Connect(u, "valid", cid, "CS")
  \/ \E u \in Faculty, deps \in {{}, {"CS"}}, vis \in BOOLEAN :
       StartProjectCreate(u, deps, vis, NoClient)
  \/ \E r \in InFlight : ProjectCreateScope(r)
  \/ \E r \in InFlight : ProjectCreateWrite(r)
  \/ \E h \in ApplyHandlers, pid \in DOMAIN projects : StartApply(h, "S1", pid)
  \/ \E r \in InFlight : ApplyProject(r)
  \/ \E r \in InFlight : ApplyExisting(r)
  \/ \E r \in InFlight : ApplyCreate(r)

DeliverySpec == ProjectCreateInit /\ [][DeliveryNext]_vars

\* a request is answered in this step
Answered == BagCardinality(inflight') < BagCardinality(inflight)

\* io.to(room).emit(...) is called once for each room, and each call sends
\* the event to every socket in the room: the copies a socket receives
Copies(s, rooms) == Cardinality(s.rooms \cap rooms)

\* C37: of one project event each connected client receives at most one
\* copy, whatever tenant and department channels it has joined
C37_AtMostOneCopy ==
  [][(Answered /\ last'.req.kind = "projectCreate")
       => \A s \in sockets : Copies(s, last'.emitted) <= 1]_vars

\* the tenant of an event: of the created project, or of the author of the
\* project applied to
EventTenant(req) ==
  IF req.kind = "projectCreate" THEN scope[req.actor].collegeId
  ELSE scope[projects[req.pid].authorId].collegeId

\* C38: a project event of tenant T, and an application event for an author
\* of tenant T, reach no connection whose authenticated tenant is not T; a
\* connection with no tenant id receives no project event
C38_TenantOnlyDelivery ==
  [][(Answered /\ last'.req.kind \in {"projectCreate", "apply"})
       => \A s \in sockets :
            Copies(s, last'.emitted) > 0
              => (s.data.collegeId # None
                    /\ s.data.collegeId = EventTenant(last'.req))]_vars

\* an application event reached the author's connection while a connection
\* of another tenant, or of none, was open
C38_Witness ==
  /\ last.req.kind = "apply" /\ last.emitted # {}
  /\ \E s \in sockets : Copies(s, last.emitted) > 0
  /\ \E s \in sockets : s.data.collegeId # EventTenant(last.req)

-----------------------------------------------------------------------------
\* Applications of an archived project: the owner's archive, then student
\* apply and faculty accept / reject, one request at a time

\* P1 of tenant T1 by F1, open and approved; S1 has a PENDING application or none
ArchivedAppsInit ==
  /\ \E n \in 1..MaxStudentsCap : projects = [p \in Projects |-> OpenProject(n)]
  /\ \E st \in {None, "PENDING"} :
       apps = SeedApps([s \in Students |-> IF s = "S1" THEN st ELSE None])
  /\ tasks = {}
  /\ nextId = 3
  /\ attachments = {} /\ comments = {} /\ auditLog = {}
  /\ cache = NoCache /\ lookup = NoLookup /\ sockets = {}
  /\ scope = HomeScope
  /\ inflight = EmptyBag
  /\ started = 0
  /\ last = NoLast

ArchivedAppsStart ==
  \/ \E pid \in Projects : StartProjectDelete("F1", pid)
  \/ \E h \in ApplyHandlers, u \in Students, pid \in Projects : StartApply(h, u, pid)
  \/ \E u \in Faculty, aid \in AppIds, st \in StatusInputs : StartStatus(u, aid, st)

ArchivedAppsStep ==
  \/ \E r \in InFlight : ProjectDeleteRead(r)
  \/ \E r \in InFlight : ProjectDeleteWrite(r)
  \/ \E r \in InFlight : ApplyProject(r)
  \/ \E r \in InFlight : ApplyExisting(r)
  \/ \E r \in InFlight : ApplyCreate(r)
  \/ \E r \in InFlight : StatusRead(r)
  \/ \E r \in InFlight : StatusCount(r)
  \/ \E r \in InFlight : StatusWrite(r)

ArchivedAppsNext == (inflight = EmptyBag /\ ArchivedAppsStart) \/ ArchivedAppsStep

ArchivedAppsSpec == ArchivedAppsInit /\ [][ArchivedAppsNext]_vars

\* C39: while a project is archived, a student's apply and a faculty accept
\* or reject addressed at it or at one of its applications are rejected and
\* leave its applications as they were
C39_ArchivedApplicationsFrozen ==
  \A pid \in Projects :
    (projects[pid].archived /\ last.req.pid = pid /\ last.req.kind \in {"apply", "status"})
      => (last.resp >= 400 /\ ~last.changed)

-----------------------------------------------------------------------------
\* The student listing against the student single read

\* C40: for every student scope, with or without a tenant id and with or
\* without a department, and every project, GET /v1/projects with no search
\* parameter returns the project iff GET /v1/projects/:id sends it
C40_ListFilterIsReadCheck ==
  /\ (last.req.kind = "list" /\ last.req.actor \in Students)
       => \A p \in Projects :
            (p \in last.returned) <=> SingleReadVisible(last.req.actor, projects[p])
  /\ (last.req.kind = "read" /\ last.req.actor \in Students)
       => ((last.req.pid \in last.returned)
             <=> ListFilter(last.req.actor, projects[last.req.pid]))

\* a student whose scope has neither tenant id nor department read a project
\* and was sent it
C40_Witness ==
  /\ last.req.kind = "read" /\ last.req.actor \in Students
  /\ scope[last.req.actor] = NoScope
  /\ last.req.pid \in last.returned

=============================================================================
